---------------------------- MODULE Spec2Model ----------------------------
(***************************************************************************)
(* A model of the map viewer: the UI loop of main.rs with Viewer::update   *)
(* and Viewer::draw, RenderManager::async_viewport_tiles with its worker   *)
(* jobs and tile cache (render.rs), MapFile's zoom selection and tile      *)
(* lookup (mapsforge/mod.rs) and the varint codec (mapsforge/parse.rs).    *)
(*                                                                         *)
(* Three specifications share the module:                                  *)
(*   Spec      the UI loop, the render manager and the worker pool;        *)
(*   SpecFile  MapFile::desired_zoom_level and MapFile::tile on a header   *)
(*             drawn from a bounded set of files;                          *)
(*   SpecCodec vbe_u on byte strings drawn from a bounded set.             *)
(***************************************************************************)
EXTENDS Integers, Sequences, FiniteSets, TLC

VARIABLES
    \* ---- main.rs: Events and Viewer, and the loop of main ----
    frames,          \* Events::frames
    redraw,          \* main's local `redraw`
    tiles_ready,     \* Events::tiles_ready: the (generation, tile) pairs it holds
    queue,           \* the SDL event queue: the tile events pushed by Updater::send
                     \* (both without their order: draw paints every tile it drains
                     \* on its own, and a (generation, tile) pair is sent once)
    offset,          \* Viewer::offset (Coord)
    generation,      \* Viewer::generation
    \* ---- render.rs: RenderManager and its worker jobs ----
    cur_generation,  \* RenderManager::cur_generation (AtomicU64)
    shards,          \* RenderManager::tiles: the set of (zoom) shards created
    cache,           \* the shard's HashMap<(x, y), Arc<RenderTile>>
    mutex,           \* the shard's Mutex: 0 = free, else the job holding it
    jobs,            \* the closures spawned on render_threads: Seq of job records
    aborted,         \* the process was aborted by a panic in a worker job
    corrupt,         \* tiles of the map file whose records do not parse
    \* ---- history (observers of the run, never read by the program) ----
    painted,         \* the place_tile calls: [stamp, viewgen, high, tile]
    discarded,       \* the drained tiles draw did not paint
    gen_high,        \* the highest value Viewer::generation has had
    delivered,       \* every Updater::send: [generation, tile, job], job = 0 for the UI thread
    requests,        \* every async_viewport_tiles call: Seq of records
    ui_last,         \* the branch the last loop iteration took
    \* ---- SpecFile ----
    file,            \* the MapFile: header, data, zoom map and tile indices
    fcall,           \* the last call made on it and its outcome
    \* ---- SpecCodec ----
    input,           \* the byte string handed to the codec
    output           \* the codec's result for it

uiVars    == <<frames, redraw, tiles_ready, queue, offset, generation>>
rmVars    == <<cur_generation, shards, cache, mutex, jobs, aborted, corrupt>>
histVarsButLast == <<painted, discarded, gen_high, delivered, requests>>
histVars  == <<histVarsButLast, ui_last>>
fileVars  == <<file, fcall>>
codecVars == <<input, output>>
vars      == <<uiVars, rmVars, histVars, fileVars, codecVars>>

-----------------------------------------------------------------------------
(* Bounds of the model *)

\* events.frames is counted up to this number: a request takes an iteration
\* below it, and the iterations that draw or idle go on at it.
MaxFrames == 4

\* The worker threads of the pool render_threads (rayon builds one per CPU):
\* each runs one job at a time, from its first statement to its last.
Workers == {"w1", "w2"}

Max(a, b) == IF a >= b THEN a ELSE b
Min(a, b) == IF a <= b THEN a ELSE b

RECURSIVE Pow2(_)
Pow2(n) == IF n <= 0 THEN 1 ELSE 2 * Pow2(n - 1)

\* Rust's Option: None, or Some(v) as a one-element sequence.
None == <<>>
Some(v) == <<v>>


-----------------------------------------------------------------------------
(* render.rs: BoundingBox over mapsforge::Coord *)

Coord(x, y) == [x |-> x, y |-> y]

\* BoundingBox::empty
BBEmpty == [empty |-> TRUE, min |-> Coord(0, 0), max |-> Coord(0, 0)]

\* BoundingBox::from_corners
from_corners(a, b) ==
    [empty |-> FALSE,
     min |-> Coord(Min(a.x, b.x), Min(a.y, b.y)),
     max |-> Coord(Max(a.x, b.x), Max(a.y, b.y))]

\* BoundingBox::corners
corners(bb) == IF bb.empty THEN None ELSE Some(<<bb.min, bb.max>>)

\* BoundingBox::include
include(bb, point) ==
    IF bb.empty THEN [empty |-> FALSE, min |-> point, max |-> point]
    ELSE [empty |-> FALSE,
          min |-> Coord(IF point.x < bb.min.x THEN point.x ELSE bb.min.x,
                        IF point.y < bb.min.y THEN point.y ELSE bb.min.y),
          max |-> Coord(IF point.x > bb.max.x THEN point.x ELSE bb.max.x,
                        IF point.y > bb.max.y THEN point.y ELSE bb.max.y)]

union_of_fields(a, b) == include(include(a, b.min), b.max)

\* BoundingBox::union
union(a, b) == IF b.empty THEN a ELSE include(include(a, b.min), b.max)

\* BoundingBox::midpoint (of a box that is not empty)
midpoint(bb) == Coord((bb.min.x + bb.max.x) \div 2, (bb.min.y + bb.max.y) \div 2)

\* BoundingBox::intersection
intersection(a, b) ==
    IF a.empty \/ b.empty THEN BBEmpty
    ELSE LET xmin == Max(a.min.x, b.min.x)
             xmax == Min(a.max.x, b.max.x)
             ymin == Max(a.min.y, b.min.y)
             ymax == Min(a.max.y, b.max.y)
         IN  IF xmin > xmax \/ ymin > ymax THEN BBEmpty
             ELSE [empty |-> FALSE, min |-> Coord(xmin, ymin), max |-> Coord(xmax, ymax)]

\* BoundingBox::width, height, max_dimension, is_empty
width(bb) == IF bb.empty THEN 0 ELSE bb.max.x - bb.min.x
height(bb) == IF bb.empty THEN 0 ELSE bb.max.y - bb.min.y
max_dimension(bb) == Max(width(bb), height(bb))
is_empty(bb) == max_dimension(bb) = 0

-----------------------------------------------------------------------------
(* The planar coordinate space and the one map the viewer shows *)

\* mapsforge::COORD_MAX, the side of the planar square.  The program's value
\* is 2^32; the model counts coordinates in units of 2^28, which keeps every
\* tile boundary of zoom levels 0..4 on a whole unit.
COORD_MAX == 16

\* MapFile::bounds of the one map shown: a regional map that lies across the
\* tile columns 0 and 1 of zoom 1, in the upper half of tile row 1.
MapBounds == <<Coord(4, 8), Coord(12, 12)>>

\* RenderManager::bounds: the union of the maps' bounds.
RenderBounds == union(BBEmpty, from_corners(MapBounds[1], MapBounds[2]))

\* The zoom MapFile::desired_zoom_level picks for the viewer's resolution:
\* Some(base zoom) of the interval covering the target, else None.  The
\* viewer's scale is not changed in Spec, so every request gets this zoom.
ViewZoom == Some(1)

\* The window's drawable size in pixels, as main reads it from the window.
WindowSize == <<4, 4>>

\* Viewer::zoom_to_fit, as Viewer::new runs it: the scale (coord units per
\* pixel) and the offset that centre the maps in the window.  Spec leaves
\* the size and the scale as they are: its inputs are drags and redraws of
\* the window at the same size.
zoom_to_fit(size) ==
    LET scale == Max(width(RenderBounds) \div size[1], height(RenderBounds) \div size[2])
        mid   == midpoint(RenderBounds)
    IN  [size |-> size, scale |-> scale,
         offset |-> Coord(mid.x + (0 - ((scale * size[1]) \div 2)),
                          mid.y + (0 - ((scale * size[2]) \div 2)))]
View == zoom_to_fit(WindowSize)

\* Viewer::viewport
viewport(off) ==
    LET winsize == Coord(View.size[1] * View.scale, View.size[2] * View.scale)
    IN  from_corners(off, Coord(off.x + winsize.x, off.y + winsize.y))

\* Viewer::pan
pan(off, delta) == Coord(off.x - delta[1] * View.scale, off.y - delta[2] * View.scale)

\* visible_tiles: ((xmin, xmax), (ymin, ymax)) by div_floor
tileidx(coord, zoom) == coord \div (COORD_MAX \div Pow2(zoom))
visible_tiles(vp, zoom) ==
    LET c == corners(vp)[1]
    IN  <<<<tileidx(c[1].x, zoom), tileidx(c[2].x, zoom)>>,
          <<tileidx(c[1].y, zoom), tileidx(c[2].y, zoom)>>>>

\* The order in which the loops of async_viewport_tiles visit the range:
\* for y in yrange { for x in xrange { .. } }
TileSeq(xrange, yrange) ==
    LET w == xrange[2] - xrange[1] + 1
        h == yrange[2] - yrange[1] + 1
    IN  IF w <= 0 \/ h <= 0 THEN <<>>
        ELSE [i \in 1..(w * h) |->
                 <<xrange[1] + ((i - 1) % w), yrange[1] + ((i - 1) \div w)>>]

\* The test of async_viewport_tiles that sends an empty tile instead of
\* spawning a job.
OffMap(x, y, ntile) == y <= 0 \/ x <= 0 \/ y > ntile \/ x > ntile

\* A RenderTile behind its Arc.  `id` stands for the allocation: the job that
\* ran Arc::new, or <<0, generation, x, y>> for a tile the UI thread made, so
\* that two tiles are the same object exactly when the records are equal.
RenderTile(id, zoom, x, y, layers) ==
    [id |-> id, zoom |-> zoom, x |-> x, y |-> y, layers |-> layers]

\* RenderTile::empty
RenderTile_empty(id, zoom, x, y) == RenderTile(id, zoom, x, y, "none")


-----------------------------------------------------------------------------
(* render.rs: RenderManager::async_viewport_tiles, the part run by the UI *)

Running == ~aborted

\* The tiles a request visits, in loop order; none when the map is skipped
\* (its bounds miss the viewport, or it has no zoom level for the resolution).
RequestTiles(vp) ==
    IF is_empty(intersection(from_corners(MapBounds[1], MapBounds[2]), vp)) THEN <<>>
    ELSE IF ViewZoom = None THEN <<>>
    ELSE LET r == visible_tiles(vp, ViewZoom[1])
         IN  TileSeq(r[1], r[2])

\* A closure handed to render_threads.spawn, before it has run.  Besides what
\* the closure captures and its position (pc) the record keeps what the job
\* did: the generation it loaded (seen), whether it returned as stale, the
\* tile its lookup found, and how often it parsed, inserted and sent.
NewJob(gen, zoom, x, y) ==
    [generation |-> gen, zoom |-> zoom, x |-> x, y |-> y, pc |-> "spawned",
     seen |-> -1, stale |-> FALSE, cached |-> None, tile |-> None,
     parsed |-> 0, inserted |-> 0, sent |-> 0]

\* One pass of the body of the double loop, for tile t: st is the state the
\* loop works on (the event queue and the jobs spawned).
DispatchOne(st, gen, zoom, t) ==
    IF OffMap(t[1], t[2], Pow2(zoom))
    THEN LET tile == RenderTile_empty(<<0, gen, t[1], t[2]>>, zoom, t[1], t[2])
         IN  [st EXCEPT !.queue = @ \cup {[generation |-> gen, tile |-> tile]},
                        !.delivered = @ \cup {[generation |-> gen, tile |-> tile, job |-> 0]}]
    ELSE [st EXCEPT !.jobs = Append(@, NewJob(gen, zoom, t[1], t[2]))]

RECURSIVE Dispatch(_, _, _, _, _)
Dispatch(st, gen, zoom, tiles, i) ==
    IF i > Len(tiles) THEN st
    ELSE Dispatch(DispatchOne(st, gen, zoom, tiles[i]), gen, zoom, tiles, i + 1)

\* Whether every job of the request stamped gen has returned.
RequestFinished(gen) ==
    \A j \in 1..Len(jobs) : jobs[j].generation = gen => jobs[j].pc \in {"done"}

AllJobsFinished == \A j \in 1..Len(jobs) : jobs[j].pc = "done"

\* async_viewport_tiles(viewport, winwidth, generation, updater), called with
\* the queue as events.update left it.
async_viewport_tiles(vp, gen, q) ==
    LET tiles == RequestTiles(vp)
        st0   == [queue |-> q, jobs |-> jobs, delivered |-> delivered]
        st    == IF tiles = <<>> THEN st0 ELSE Dispatch(st0, gen, ViewZoom[1], tiles, 1)
    IN  /\ cur_generation' = gen
        /\ shards' = IF tiles = <<>> THEN shards ELSE shards \cup {ViewZoom[1]}
        /\ queue' = st.queue
        /\ jobs' = st.jobs
        /\ delivered' = st.delivered
        /\ requests' = Append(requests,
              [generation |-> gen, viewport |-> vp,
               tiles |-> {tiles[i] : i \in 1..Len(tiles)},
               warm |-> \E r \in 1..Len(requests) : RequestFinished(requests[r].generation),
               quiet |-> AllJobsFinished])
        /\ UNCHANGED <<cache, mutex, aborted, corrupt>>

-----------------------------------------------------------------------------
(* main.rs: one iteration of the loop of main *)

\* What Events::update collects in one iteration besides the tile events:
\* nothing that matters ("other": mouse motion, a key with no binding),
\* a window resize, or a drag of the mouse with the left button down.
DragDeltas == {<<-4, 0>>, <<4, 0>>}
Inputs == {[kind |-> "other", delta |-> <<0, 0>>], [kind |-> "resize", delta |-> <<0, 0>>]}
              \cup {[kind |-> "drag", delta |-> d] : d \in DragDeltas}

\* The offsets the model lets the viewport reach by dragging.
OffsetRange == -4 .. 4

\* Events::update: every queued tile event is pushed onto tiles_ready.
EventsUpdate == tiles_ready \cup queue

\* Viewer::update: the new offset and whether the viewport has to be redrawn.
ViewerUpdate(in) ==
    LET moved == in.kind = "drag" /\ in.delta # <<0, 0>>
    IN  [update |-> in.kind = "resize" \/ frames = 0 \/ moved,
         offset |-> IF moved THEN pan(offset, in.delta) ELSE offset]

\* A draw that also paints the tiles of older generations.
DrawFilterOlder(stamp, gen) == stamp <= gen

\* The test of Viewer::draw that lets a drained tile be painted.
DrawFilter(stamp, gen) == stamp = gen

\* The loop's `if redraw` branch: the request for the new viewport.
FrameRequest(in) ==
    LET u == ViewerUpdate(in)
    IN  /\ Running /\ frames < MaxFrames
        /\ u.update
        /\ u.offset.x \in OffsetRange
        /\ tiles_ready' = EventsUpdate
        /\ offset' = u.offset
        /\ generation' = frames
        /\ gen_high' = Max(gen_high, frames)
        /\ async_viewport_tiles(viewport(u.offset), frames, {})
        /\ redraw' = TRUE
        /\ frames' = frames + 1
        /\ ui_last' = "request"
        /\ UNCHANGED <<painted, discarded, fileVars, codecVars>>

\* The loop's `else if !events.tiles_ready.is_empty()` branch: Viewer::draw
\* drains tiles_ready and places the tiles of the current generation.
FrameDraw(in) ==
    LET u == ViewerUpdate(in)
        ready == EventsUpdate
        recs == {[stamp |-> e.generation, viewgen |-> generation,
                  high |-> gen_high, tile |-> e.tile] : e \in ready}
    IN  /\ Running
        /\ ~u.update
        /\ ready # {}
        /\ painted' = painted \cup {r \in recs : DrawFilter(r.stamp, r.viewgen)}
        /\ discarded' = discarded \cup {r \in recs : ~DrawFilter(r.stamp, r.viewgen)}
        /\ tiles_ready' = {}
        /\ queue' = {}
        /\ redraw' = FALSE
        /\ frames' = Min(frames + 1, MaxFrames)
        /\ ui_last' = "draw"
        /\ UNCHANGED <<offset, generation, gen_high, delivered, requests,
                       rmVars, fileVars, codecVars>>

\* An iteration with nothing to redraw and nothing to draw.
FrameIdle(in) ==
    LET u == ViewerUpdate(in)
    IN  /\ Running
        /\ ~u.update
        /\ EventsUpdate = {}
        /\ redraw' = FALSE
        /\ frames' = Min(frames + 1, MaxFrames)
        /\ ui_last' = "idle"
        /\ UNCHANGED <<tiles_ready, queue, offset, generation, histVarsButLast,
                       rmVars, fileVars, codecVars>>

-----------------------------------------------------------------------------
(* render.rs: the closure a worker thread runs for one tile *)

\* A job that never takes itself for stale.
StaleJobNever(gen, cur) == FALSE

\* A job that takes itself for stale also when its request is the current one.
StaleJobCurrent(gen, cur) == gen <= cur

\* The job's first statement: `if generation < thread_generation.load() { return; }`
StaleJob(gen, cur) == gen < cur

\* A lookup that never finds the tile.
CacheGetMiss(x, y) == None

\* HashMap::get on the shard.
CacheGet(x, y) == IF <<x, y>> \in DOMAIN cache THEN Some(cache[<<x, y>>]) ELSE None

\* HashMap::insert on the shard: the value stored under the key is replaced.
CacheInsert(x, y, tile) == [k \in DOMAIN cache \cup {<<x, y>>} |->
                                IF k = <<x, y>> THEN tile ELSE cache[k]]

\* The tiles of the map's tile index at the request's zoom: the tile box of
\* MapBounds at zoom 1 (tile_idx_in_box is Some for these alone).
TileBox == {<<0, 1>>, <<1, 1>>}

\* MapFile::tile followed by RenderTile::new, for the map shown: a panic of
\* one of tile's unwrap calls when the tile's records do not parse, else the
\* layers of the tile: none for a tile outside the box (Tile::empty).
MapTile(zoom, x, y) ==
    IF <<x, y>> \notin TileBox THEN "none"
    ELSE IF <<x, y>> \in corrupt THEN "panic"
    ELSE "data"

SetJob(j, rec) == [jobs EXCEPT ![j] = rec]

\* The jobs some worker thread is running.
InProgress == {j \in 1..Len(jobs) : jobs[j].pc \notin {"spawned", "done", "panicked"}}

\* A free worker thread takes the job; line 235: the staleness test
JobStart(j) ==
    /\ Running
    /\ jobs[j].pc = "spawned"
    /\ Cardinality(InProgress) < Cardinality(Workers)
    /\ jobs' = SetJob(j, IF StaleJob(jobs[j].generation, cur_generation)
                         THEN [jobs[j] EXCEPT !.pc = "done", !.seen = cur_generation,
                                              !.stale = TRUE]
                         ELSE [jobs[j] EXCEPT !.pc = "lock_get", !.seen = cur_generation])
    /\ UNCHANGED <<uiVars, cur_generation, shards, cache, mutex, aborted, corrupt,
                   histVars, fileVars, codecVars>>

\* A guard that outlives its statement: the job keeps the lock.
GuardKept(j) == j

\* The MutexGuard of `thread_cache.lock()` is a temporary of the statement
\* that takes it and is dropped at the statement's end: the mutex is free.
GuardDropped(j) == 0

\* line 236: thread_cache.lock()
JobLockGet(j) ==
    /\ Running
    /\ jobs[j].pc = "lock_get"
    /\ mutex = 0
    /\ mutex' = j
    /\ jobs' = SetJob(j, [jobs[j] EXCEPT !.pc = "get"])
    /\ UNCHANGED <<uiVars, cur_generation, shards, cache, aborted, corrupt,
                   histVars, fileVars, codecVars>>

\* line 236: .get(&(x, y)).cloned(), and the guard is dropped
JobGet(j) ==
    LET hit == CacheGet(jobs[j].x, jobs[j].y)
    IN  /\ Running
        /\ jobs[j].pc = "get"
        /\ mutex' = GuardDropped(j)
        /\ jobs' = SetJob(j, IF hit # None
                             THEN [jobs[j] EXCEPT !.pc = "send", !.cached = hit, !.tile = hit]
                             ELSE [jobs[j] EXCEPT !.pc = "parse"])
        /\ UNCHANGED <<uiVars, cur_generation, shards, cache, aborted, corrupt,
                       histVars, fileVars, codecVars>>

\* A job that catches the failure, sends an empty tile and returns.
ParseFailurePlaceholder(j) ==
    LET tile == RenderTile_empty(<<j>>, jobs[j].zoom, jobs[j].x, jobs[j].y)
    IN  /\ aborted' = aborted
        /\ jobs' = SetJob(j, [jobs[j] EXCEPT !.pc = "done", !.tile = Some(tile), !.sent = @ + 1])
        /\ queue' = queue \cup {[generation |-> jobs[j].generation, tile |-> tile]}
        /\ delivered' = delivered \cup
              {[generation |-> jobs[j].generation, tile |-> tile, job |-> j]}

\* What a job does when MapFile::tile panics: nothing more.  The panic
\* unwinds out of the closure, and the pool, built with no panic handler,
\* aborts the process.
ParseFailure(j) ==
    /\ aborted' = TRUE
    /\ jobs' = SetJob(j, [jobs[j] EXCEPT !.pc = "panicked"])
    /\ UNCHANGED <<queue, delivered>>

\* line 241: Arc::new(RenderTile::new(thread_map.tile(zoom, x, y), ..))
JobParse(j) ==
    LET layers == MapTile(jobs[j].zoom, jobs[j].x, jobs[j].y)
    IN  /\ Running
        /\ jobs[j].pc = "parse"
        /\ IF layers = "panic"
           THEN ParseFailure(j)
           ELSE /\ jobs' = SetJob(j, [jobs[j] EXCEPT
                          !.pc = "lock_insert",
                          !.tile = Some(RenderTile(<<j>>, jobs[j].zoom, jobs[j].x, jobs[j].y, layers)),
                          !.parsed = @ + 1])
                /\ UNCHANGED <<aborted, queue, delivered>>
        /\ UNCHANGED <<frames, redraw, tiles_ready, offset, generation,
                       cur_generation, shards, cache, mutex, corrupt,
                       painted, discarded, gen_high, requests, ui_last, fileVars, codecVars>>

\* line 242: thread_cache.lock()
JobLockInsert(j) ==
    /\ Running
    /\ jobs[j].pc = "lock_insert"
    /\ mutex = 0
    /\ mutex' = j
    /\ jobs' = SetJob(j, [jobs[j] EXCEPT !.pc = "insert"])
    /\ UNCHANGED <<uiVars, cur_generation, shards, cache, aborted, corrupt,
                   histVars, fileVars, codecVars>>

\* line 242: .insert((x, y), new_tile.clone()), and the guard is dropped
JobInsert(j) ==
    /\ Running
    /\ jobs[j].pc = "insert"
    /\ cache' = CacheInsert(jobs[j].x, jobs[j].y, jobs[j].tile[1])
    /\ mutex' = GuardDropped(j)
    /\ jobs' = SetJob(j, [jobs[j] EXCEPT !.pc = "send", !.inserted = @ + 1])
    /\ UNCHANGED <<uiVars, cur_generation, shards, aborted, corrupt,
                   histVars, fileVars, codecVars>>

\* line 245: thread_updater.send(UpdateEvent::Tile { generation, tile })
JobSend(j) ==
    /\ Running
    /\ jobs[j].pc = "send"
    /\ queue' = queue \cup {[generation |-> jobs[j].generation, tile |-> jobs[j].tile[1]]}
    /\ delivered' = delivered \cup
          {[generation |-> jobs[j].generation, tile |-> jobs[j].tile[1], job |-> j]}
    /\ jobs' = SetJob(j, [jobs[j] EXCEPT !.pc = "done", !.sent = @ + 1])
    /\ UNCHANGED <<frames, redraw, tiles_ready, offset, generation,
                   cur_generation, shards, cache, mutex, aborted, corrupt,
                   painted, discarded, gen_high, requests, ui_last, fileVars, codecVars>>

-----------------------------------------------------------------------------
(* The specification of the viewer *)

\* The files the model runs on: every tile parses, or the one tile of the
\* map's box does not.
CorruptChoices == {{}, {<<1, 1>>}}

Init ==
    /\ frames = 0
    /\ redraw = TRUE
    /\ tiles_ready = {}
    /\ queue = {}
    /\ offset = View.offset
    /\ generation = 0
    /\ cur_generation = 0
    /\ shards = {}
    /\ cache = <<>>
    /\ mutex = 0
    /\ jobs = <<>>
    /\ aborted = FALSE
    /\ corrupt \in CorruptChoices
    /\ painted = {}
    /\ discarded = {}
    /\ gen_high = 0
    /\ delivered = {}
    /\ requests = <<>>
    /\ ui_last = "new"
    /\ file = <<>>
    /\ fcall = <<>>
    /\ input = <<>>
    /\ output = <<>>

Next ==
    \/ \E in \in Inputs : FrameRequest(in)
    \/ \E in \in Inputs : FrameDraw(in)
    \/ \E in \in Inputs : FrameIdle(in)
    \/ \E j \in 1..Len(jobs) : JobStart(j)
    \/ \E j \in 1..Len(jobs) : JobLockGet(j)
    \/ \E j \in 1..Len(jobs) : JobGet(j)
    \/ \E j \in 1..Len(jobs) : JobParse(j)
    \/ \E j \in 1..Len(jobs) : JobLockInsert(j)
    \/ \E j \in 1..Len(jobs) : JobInsert(j)
    \/ \E j \in 1..Len(jobs) : JobSend(j)

Spec == Init /\ [][Next]_vars

\* A step of some job on some worker thread of the pool.
WorkerStep ==
    \E j \in 1..Len(jobs) :
        \/ JobStart(j) \/ JobLockGet(j) \/ JobGet(j) \/ JobParse(j)
        \/ JobLockInsert(j) \/ JobInsert(j) \/ JobSend(j)

\* The viewer under fair scheduling: the pool runs a job that can run, a
\* thread that can take or release the lock does, and the loop of main, which
\* a queued tile event wakes, comes to draw the tiles that are ready.
SpecLive ==
    /\ Init /\ [][Next]_vars
    /\ WF_vars(WorkerStep)
    /\ WF_vars(\E in \in Inputs : FrameDraw(in))


-----------------------------------------------------------------------------
(* mapsforge/mod.rs: tile arithmetic on geographic coordinates *)

\* LON_MAX and LAT_MAX, in microdegrees.
LON_MAX == 179999900
LAT_MAX == 85051100

LatLon(lat, lon) == [lat |-> lat, lon |-> lon]
Clamp(v, lo, hi) == IF v < lo THEN lo ELSE IF v > hi THEN hi ELSE v

\* The zoom levels at which the model does the tile arithmetic.  At these the
\* rows of tiles meet at the latitudes +-66.51326044 and 0 degrees and the
\* columns at multiples of 90 degrees, and the f64 arithmetic of the program
\* on whole microdegrees is the integer arithmetic below.
TileLevels == 0..2

\* tile_origin's latitudes for 0/4, 1/4, .. 4/4 of the way down the square,
\* (lat * 1e6) as i32.
OriginLat == <<85051128, 66513260, 0, -66513260, -85051128>>

\* tile_origin
tile_origin(level, xtile, ytile) ==
    LET n == Pow2(level)
    IN  LatLon(OriginLat[(ytile * 4) \div n + 1], (xtile * 360000000) \div n - 180000000)

\* The row of biased_coord2tile before the bias: floor of the Mercator
\* fraction of the clamped latitude times n.
RowOf(level, lat) ==
    LET l == Clamp(lat, 0 - LAT_MAX, LAT_MAX)
        quarter == IF l > 66513260 THEN 0
                   ELSE IF l > 0 THEN 1
                   ELSE IF l >= -66513260 THEN 2
                   ELSE 3
    IN  (quarter * Pow2(level)) \div 4

\* The column of biased_coord2tile before the bias.
ColumnOf(level, lon) ==
    ((Clamp(lon, 0 - LON_MAX, LON_MAX) + 180000000) * Pow2(level)) \div 360000000

\* A biased_coord2tile that moves off an origin also from tile 0.
biased_coord2tile_from_zero(level, coord, bias_low) ==
    LET x0 == ColumnOf(level, coord.lon)
        y0 == RowOf(level, coord.lat)
        origin == tile_origin(level, x0, y0)
        y1 == IF bias_low /\ origin.lat = coord.lat THEN y0 - 1 ELSE y0
        x1 == IF bias_low /\ origin.lon = coord.lon THEN x0 - 1 ELSE x0
        maxtile == Pow2(level) - 1
    IN  <<Min(x1, maxtile), Min(y1, maxtile)>>

\* biased_coord2tile: <<xtile, ytile>>
biased_coord2tile(level, coord, bias_low) ==
    LET x0 == ColumnOf(level, coord.lon)
        y0 == RowOf(level, coord.lat)
        origin == tile_origin(level, x0, y0)
        y1 == IF bias_low /\ origin.lat = coord.lat /\ y0 > 0 THEN y0 - 1 ELSE y0
        x1 == IF bias_low /\ origin.lon = coord.lon /\ x0 > 0 THEN x0 - 1 ELSE x0
        maxtile == Pow2(level) - 1
    IN  <<Min(x1, maxtile), Min(y1, maxtile)>>

\* BoundingBox::minmax of the geographic box [lat_min, lon_min, lat_max, lon_max]
minmax(bounds) ==
    <<LatLon(bounds.lat_max, bounds.lon_min), LatLon(bounds.lat_min, bounds.lon_max)>>

\* num_tiles
num_tiles(level, bounds) ==
    LET min == biased_coord2tile(level, minmax(bounds)[1], FALSE)
        max == biased_coord2tile(level, minmax(bounds)[2], TRUE)
    IN  <<max[1] - min[1] + 1, max[2] - min[2] + 1>>

tile_idx_in_box_short_rows(level, bounds, xtile, ytile) ==
    LET min == biased_coord2tile(level, minmax(bounds)[1], FALSE)
        max == biased_coord2tile(level, minmax(bounds)[2], TRUE)
    IN  IF xtile < min[1] \/ xtile > max[1] \/ ytile < min[2] \/ ytile > max[2] THEN None
        ELSE LET rowlen == max[1] - min[1]
             IN  Some((ytile - min[2]) * rowlen + (xtile - min[1]))

\* tile_idx_in_box
tile_idx_in_box(level, bounds, xtile, ytile) ==
    LET min == biased_coord2tile(level, minmax(bounds)[1], FALSE)
        max == biased_coord2tile(level, minmax(bounds)[2], TRUE)
    IN  IF xtile < min[1] \/ xtile > max[1] \/ ytile < min[2] \/ ytile > max[2] THEN None
        ELSE LET rowlen == max[1] - min[1] + 1
             IN  Some((ytile - min[2]) * rowlen + (xtile - min[1]))

-----------------------------------------------------------------------------
(* mapsforge/mod.rs, mapsforge/parse.rs: the map file (SpecFile) *)

\* A u64 is kept as [hi, lo] with value hi * 2^30 + lo, so that the 40-bit
\* index entries and 64-bit subfile offsets keep their bits.
LoWord == Pow2(30)
U64(hi, lo) == [hi |-> hi, lo |-> lo]
U64Add(a, b) ==
    LET l == a.lo + b.lo
    IN  U64(a.hi + b.hi + l \div LoWord, l % LoWord)

\* x & 0x8000000000 != 0: bit 39 is bit 9 of the high word.
Bit39(a) == (a.hi \div Pow2(9)) % 2 = 1
\* x & 0x7fffffffff
Low39(a) == U64(a.hi % Pow2(9), a.lo)

ZoomInterval(base, min, max, start) ==
    [base |-> base, min |-> min, max |-> max, start |-> start]

GeoBox(lat_min, lon_min, lat_max, lon_max) ==
    [lat_min |-> lat_min, lon_min |-> lon_min, lat_max |-> lat_max, lon_max |-> lon_max]

\* MapFile::new: later intervals overwrite earlier ones in the zoom map.
zoom_map(zoom_intervals) ==
    [level \in UNION {zoom_intervals[i].min .. zoom_intervals[i].max :
                          i \in 1..Len(zoom_intervals)} |->
        CHOOSE i \in 1..Len(zoom_intervals) :
            /\ level \in zoom_intervals[i].min .. zoom_intervals[i].max
            /\ \A k \in (i + 1)..Len(zoom_intervals) :
                   level \notin zoom_intervals[k].min .. zoom_intervals[k].max]

\* parse::tile_index: every 5-byte entry, read big-endian, plus the base.
tile_index(num, base, entries) ==
    [k \in 1..num |-> U64Add(entries[k], base)]

\* MapFile::new
MapFile_new(header, data) ==
    [header |-> header,
     data |-> data,
     zoom_interval_map |-> zoom_map(header.zoom_intervals),
     indices |-> [i \in 1..Len(header.zoom_intervals) |->
                     LET subfile == header.zoom_intervals[i]
                         n == num_tiles(subfile.base, header.bounds)
                     IN  tile_index(n[1] * n[2], subfile.start, data[i])]]

\* round(log2(num / den)): the k with 2^(k - 1/2) <= num / den < 2^(k + 1/2),
\* compared after squaring and clearing the fractions.
RoundLog2(num, den) ==
    CHOOSE k \in -2..2 :
        /\ den * den * Pow2(2 * k + 4) <= num * num * 32
        /\ num * num * 32 < den * den * Pow2(2 * k + 6)

\* MapFile::desired_zoom_level
desired_zoom_level(f, cur_zoom, tile_size) ==
    LET zoom_adj == Clamp(cur_zoom + RoundLog2(tile_size, f.header.tile_size), 0, 22)
    IN  IF zoom_adj \in DOMAIN f.zoom_interval_map
        THEN f.header.zoom_intervals[f.zoom_interval_map[zoom_adj]].base
        ELSE cur_zoom

Panic(what) == [kind |-> "panic", what |-> what]
Tile_empty(zoom, x, y) == [kind |-> "tile", zoom |-> zoom, index |-> <<x, y>>, parsed_at |-> None]
Tile_parsed(zoom, x, y, at) == [kind |-> "tile", zoom |-> zoom, index |-> <<x, y>>, parsed_at |-> Some(at)]

NonBaseAllowed(zoom_interval, zoom) == FALSE

\* tile(): zoom_interval.base != zoom
NonBase(zoom_interval, zoom) == zoom_interval.base # zoom

\* MapFile::tile
tile(f, zoom, x, y) ==
    IF zoom \notin DOMAIN f.zoom_interval_map THEN Panic("unwrap")
    ELSE LET subfile_num == f.zoom_interval_map[zoom]
             zoom_interval == f.header.zoom_intervals[subfile_num]
         IN  IF NonBase(zoom_interval, zoom) THEN Panic("unimplemented")
             ELSE LET idx == tile_idx_in_box(zoom, f.header.bounds, x, y)
                  IN  IF idx = None THEN Tile_empty(zoom, x, y)
                      ELSE LET tile_offset == f.indices[subfile_num][idx[1] + 1]
                           IN  IF Bit39(tile_offset) THEN Tile_empty(zoom, x, y)
                               ELSE Tile_parsed(zoom, x, y, tile_offset)

\* The files of the model.  The zoom intervals of a file cover disjoint zoom
\* ranges, each around its base zoom.
FileBounds ==
    {GeoBox(-50000000, -90000000, 50000000, 90000000),
     GeoBox(-90000000, -180000000, 90000000, 180000000),
     GeoBox(-50000000, -100000000, 80000000, 90000000),
     GeoBox(10000000, 10000000, 20000000, 20000000)}
FileStarts ==
    {<<U64(0, 4096), U64(0, 65536)>>, <<U64(0, 4096), U64(512, 0)>>}
FileIntervals(starts) ==
    {<<ZoomInterval(1, 0, 1, starts[1]), ZoomInterval(2, 2, 4, starts[2])>>,
     <<ZoomInterval(2, 1, 3, starts[2])>>}

\* The tile index entries of a subfile, as written in the file: offsets into
\* the subfile, bit 39 set on a water tile.
EntryPatterns == {"land", "water", "far"}
Entry(pattern, k) ==
    CASE pattern = "land"  -> U64(0, 16 * k)
      [] pattern = "water" -> IF k % 2 = 1 THEN U64(512, 0) ELSE U64(0, 16 * k)
      [] pattern = "far"   -> IF k % 2 = 1 THEN U64(511, LoWord - 16) ELSE U64(512, 16 * k)

Files ==
    { [header |-> [bounds |-> b, tile_size |-> 256, zoom_intervals |-> zi],
       data |-> [i \in 1..Len(zi) |->
                    LET n == num_tiles(zi[i].base, b)
                    IN  [k \in 1..(n[1] * n[2]) |-> Entry(p, k)]]] :
      b \in FileBounds, zi \in UNION {FileIntervals(st) : st \in FileStarts},
      p \in EntryPatterns }

Zooms == 0..5
TileXY == 0..3
CurZooms == {0, 1, 3, 4, 5, 22, 23}
TileSizes == {64, 128, 181, 182, 256, 512, 1024}

Returned == fcall # <<>> /\ fcall.result.kind # "panic"
Alive == IF fcall = <<>> THEN TRUE ELSE fcall.result.kind # "panic"

CallTile(zoom, x, y) ==
    /\ Alive
    /\ fcall' = [op |-> "tile", zoom |-> zoom, x |-> x, y |-> y,
                 result |-> tile(file, zoom, x, y)]
    /\ UNCHANGED <<file, uiVars, rmVars, histVars, codecVars>>

CallDesiredZoomLevel(cur_zoom, tile_size) ==
    /\ Alive
    /\ fcall' = [op |-> "desired_zoom_level", cur_zoom |-> cur_zoom, tile_size |-> tile_size,
                 result |-> [kind |-> "zoom",
                             zoom |-> desired_zoom_level(file, cur_zoom, tile_size)]]
    /\ UNCHANGED <<file, uiVars, rmVars, histVars, codecVars>>

CallTileIdxInBox(level, xtile, ytile) ==
    /\ Alive
    /\ fcall' = [op |-> "tile_idx_in_box", level |-> level, x |-> xtile, y |-> ytile,
                 result |-> [kind |-> "index",
                             index |-> tile_idx_in_box(level, file.header.bounds, xtile, ytile)]]
    /\ UNCHANGED <<file, uiVars, rmVars, histVars, codecVars>>

InitFile ==
    /\ frames = 0
    /\ redraw = FALSE
    /\ tiles_ready = {}
    /\ queue = {}
    /\ offset = View.offset
    /\ generation = 0
    /\ cur_generation = 0
    /\ shards = {}
    /\ cache = <<>>
    /\ mutex = 0
    /\ jobs = <<>>
    /\ aborted = FALSE
    /\ corrupt = {}
    /\ painted = {}
    /\ discarded = {}
    /\ gen_high = 0
    /\ delivered = {}
    /\ requests = <<>>
    /\ ui_last = "new"
    /\ file \in {MapFile_new(f.header, f.data) : f \in Files}
    /\ fcall = <<>>
    /\ input = <<>>
    /\ output = <<>>

NextFile ==
    \/ \E zoom \in Zooms, x \in TileXY, y \in TileXY : CallTile(zoom, x, y)
    \/ \E cur_zoom \in CurZooms, tile_size \in TileSizes :
           CallDesiredZoomLevel(cur_zoom, tile_size)
    \/ \E level \in TileLevels, xtile \in TileXY, ytile \in TileXY :
           CallTileIdxInBox(level, xtile, ytile)

SpecFile == InitFile /\ [][NextFile]_vars

-----------------------------------------------------------------------------
(* mapsforge/parse.rs: the variable-length integers (SpecCodec) *)

\* The longest byte string drawn from Bytes in full.
MaxLen == 3

\* A u64 of the codec is kept as its ten 7-bit groups, lowest first; the tenth
\* group holds bit 63 alone.
Groups == 1..(64 \div 7 + 1)
Zero64 == [g \in Groups |-> 0]
\* first as u64
FromU8(b) == [g \in Groups |-> IF g = 1 THEN b % 128 ELSE IF g = 2 THEN b \div 128 ELSE 0]

LowBitsAll(c) == c

\* c & 0x7f
LowBits(c) == c % 128

\* c & 0x80 != 0
Continues(c) == c >= 128

\* (ret << 7) | low, where low < 128: bits shifted past bit 63 are lost.
ShlOr(ret, low) ==
    [g \in Groups |-> IF g = 1 THEN low
                      ELSE IF g = 10 THEN ret[g - 1] % 2
                      ELSE ret[g - 1]]

rev_not(s) == s

\* .into_iter().rev()
rev(s) == [k \in 1..Len(s) |-> s[Len(s) + 1 - k]]

\* take_while(|c| c & 0x80 != 0): how many bytes it takes
RECURSIVE take_while_continues(_)
take_while_continues(i) ==
    IF i # <<>> /\ Continues(Head(i)) THEN 1 + take_while_continues(Tail(i)) ELSE 0

\* for c in rest.into_iter().rev() { ret = (ret << 7) | (c & 0x7f) as u64; }
RECURSIVE fold_groups(_, _)
fold_groups(cs, ret) ==
    IF cs = <<>> THEN ret ELSE fold_groups(Tail(cs), ShlOr(ret, LowBits(Head(cs))))

\* vbe_u
vbe_u(i) ==
    LET n == take_while_continues(i)
    IN  IF n = Len(i) THEN [kind |-> "err"]
        ELSE [kind |-> "ok",
              remainder |-> SubSeq(i, n + 2, Len(i)),
              value |-> fold_groups(rev(SubSeq(i, 1, n)), FromU8(i[n + 1]))]

\* The width of group g of a u64: 7 bits, the tenth 1 bit.
GroupBase(g) == IF g = 10 THEN 2 ELSE 128

\* The carry into group g when 1 is added to v.
RECURSIVE CarryInto(_, _)
CarryInto(v, g) ==
    IF g = 1 THEN 1 ELSE (v[g - 1] + CarryInto(v, g - 1)) \div GroupBase(g - 1)

\* -1 * x on the 64 bits of an i64, wrapping: the complement plus one.
Neg64(v) ==
    LET c == [g \in Groups |-> GroupBase(g) - 1 - v[g]]
    IN  [g \in Groups |-> (c[g] + CarryInto(c, g)) % GroupBase(g)]

\* i64::MIN, the one value whose negation overflows.
I64Min == [g \in Groups |-> IF g = 10 THEN 1 ELSE 0]

MagnitudeBitsAll(first) == first % 128

\* first & 0x3f
MagnitudeBits(first) == first % 64

\* first & 0x40 != 0
SignBit(first) == (first \div 64) % 2 = 1

\* vbe_s.  The value is the i64 as its 64 bits (two's complement).  mul * ret
\* overflows for -1 * i64::MIN: a build with overflow checks panics there, a
\* build without them wraps.
vbe_s(i, overflow_checks) ==
    LET n == take_while_continues(i)
    IN  IF n = Len(i) THEN [kind |-> "err"]
        ELSE LET first == i[n + 1]
                 ret == fold_groups(rev(SubSeq(i, 1, n)), FromU8(MagnitudeBits(first)))
             IN  IF SignBit(first) /\ ret = I64Min /\ overflow_checks
                 THEN [kind |-> "panic"]
                 ELSE [kind |-> "ok",
                       remainder |-> SubSeq(i, n + 2, Len(i)),
                       value |-> IF SignBit(first) THEN Neg64(ret) ELSE ret]

\* The bytes short inputs are made of, and the long inputs: a run of
\* continuation bytes, a terminator, and a byte left over.
Bytes == {0, 1, 10, 65, 127, 128, 129, 255}
Run(c, n) == [k \in 1..n |-> c]
ShortInputs == UNION {[1..n -> Bytes] : n \in 1..MaxLen}
LongInputs ==
    {Run(c, n) \o <<t, 129>> : c \in {128, 129, 255}, n \in 8..11, t \in {0, 1, 2, 65, 127}}
Inputs64 == ShortInputs \cup LongInputs

CallVbeU ==
    /\ output = <<>>
    /\ output' = [op |-> "vbe_u", result |-> vbe_u(input)]
    /\ UNCHANGED <<input, uiVars, rmVars, histVars, fileVars>>

CallVbeS(overflow_checks) ==
    /\ output = <<>>
    /\ output' = [op |-> "vbe_s", result |-> vbe_s(input, overflow_checks)]
    /\ UNCHANGED <<input, uiVars, rmVars, histVars, fileVars>>

InitCodec ==
    /\ frames = 0
    /\ redraw = FALSE
    /\ tiles_ready = {}
    /\ queue = {}
    /\ offset = View.offset
    /\ generation = 0
    /\ cur_generation = 0
    /\ shards = {}
    /\ cache = <<>>
    /\ mutex = 0
    /\ jobs = <<>>
    /\ aborted = FALSE
    /\ corrupt = {}
    /\ painted = {}
    /\ discarded = {}
    /\ gen_high = 0
    /\ delivered = {}
    /\ requests = <<>>
    /\ ui_last = "new"
    /\ file = <<>>
    /\ fcall = <<>>
    /\ input \in Inputs64
    /\ output = <<>>

NextCodec ==
    \/ CallVbeU
    \/ \E overflow_checks \in BOOLEAN : CallVbeS(overflow_checks)

SpecCodec == InitCodec /\ [][NextCodec]_vars

-----------------------------------------------------------------------------
(* mapsforge/parse.rs: delta decoding of way coordinates (SpecDelta) *)

\* The longest stored polygon.
MaxPoints == 4

\* i32::MAX and i32::MIN
I32Max == (Pow2(30) - 1) * 2 + 1
I32Min == 0 - I32Max - 1

\* a + b leaves the i32 range
AddOverflows(a, b) == (b > 0 /\ a > I32Max - b) \/ (b < 0 /\ a < I32Min - b)
\* a + b on i32, wrapping
Add32(a, b) ==
    IF b > 0 /\ a > I32Max - b THEN (a + I32Min) + (b + I32Min)
    ELSE IF b < 0 /\ a < I32Min - b THEN (a - I32Min) + (b - I32Min)
    ELSE a + b
\* a - b leaves the i32 range
SubOverflows(a, b) == (b < 0 /\ a > I32Max + b) \/ (b > 0 /\ a < I32Min + b)
\* a - b on i32, wrapping
Sub32(a, b) ==
    IF b < 0 /\ a > I32Max + b THEN (a + I32Min) - (b - I32Min)
    ELSE IF b > 0 /\ a < I32Min + b THEN (a - I32Min) - (b + I32Min)
    ELSE a - b

\* cur.lat + offset.lat + point.lat overflows in one of its two additions
Add3Overflows(a, b, c) == AddOverflows(a, b) \/ AddOverflows(Add32(a, b), c)

OffsetAfterSecond(i, cur, last, offs) ==
    IF i > 1 THEN LatLon(Sub32(cur.lat, last.lat), Sub32(cur.lon, last.lon)) ELSE offs

\* decode_double_delta: if i > 0 { offset = cur - last }
OffsetAfter(i, cur, last, offs) ==
    IF i > 0 THEN LatLon(Sub32(cur.lat, last.lat), Sub32(cur.lon, last.lon)) ELSE offs

\* decode_double_delta's loop, from point number i (from 0) on.  An i32
\* overflow panics in a build with overflow checks and wraps in one without.
RECURSIVE double_delta_loop(_, _, _, _, _, _)
double_delta_loop(points, i, cur, offs, ret, overflow_checks) ==
    IF i = Len(points) THEN [kind |-> "ok", value |-> ret]
    ELSE LET point == points[i + 1]
             last == cur
             next == LatLon(Add32(Add32(cur.lat, offs.lat), point.lat),
                            Add32(Add32(cur.lon, offs.lon), point.lon))
             overflow == \/ Add3Overflows(cur.lat, offs.lat, point.lat)
                         \/ Add3Overflows(cur.lon, offs.lon, point.lon)
                         \/ (i > 0 /\ (\/ SubOverflows(next.lat, last.lat)
                                       \/ SubOverflows(next.lon, last.lon)))
         IN  IF overflow /\ overflow_checks THEN [kind |-> "panic"]
             ELSE double_delta_loop(points, i + 1, next, OffsetAfter(i, next, last, offs),
                                    Append(ret, next), overflow_checks)

\* decode_double_delta
decode_double_delta(points, overflow_checks) ==
    double_delta_loop(points, 0, LatLon(0, 0), LatLon(0, 0), <<>>, overflow_checks)

\* The stored offsets the polygons of the model are made of.
StoredPoints ==
    {LatLon(0, 0), LatLon(1, 1), LatLon(-1, 2), LatLon(5, -3),
     LatLon(I32Max, 0), LatLon(I32Min, 1)}
StoredPolygons == UNION {[1..n -> StoredPoints] : n \in 0..MaxPoints}

CallDecodeDoubleDelta(overflow_checks) ==
    /\ output = <<>>
    /\ output' = [op |-> "decode_double_delta", overflow_checks |-> overflow_checks,
                  result |-> decode_double_delta(input, overflow_checks)]
    /\ UNCHANGED <<input, uiVars, rmVars, histVars, fileVars>>

InitDelta ==
    /\ frames = 0
    /\ redraw = FALSE
    /\ tiles_ready = {}
    /\ queue = {}
    /\ offset = View.offset
    /\ generation = 0
    /\ cur_generation = 0
    /\ shards = {}
    /\ cache = <<>>
    /\ mutex = 0
    /\ jobs = <<>>
    /\ aborted = FALSE
    /\ corrupt = {}
    /\ painted = {}
    /\ discarded = {}
    /\ gen_high = 0
    /\ delivered = {}
    /\ requests = <<>>
    /\ ui_last = "new"
    /\ file = <<>>
    /\ fcall = <<>>
    /\ input \in StoredPolygons
    /\ output = <<>>

NextDelta == \E overflow_checks \in BOOLEAN : CallDecodeDoubleDelta(overflow_checks)

SpecDelta == InitDelta /\ [][NextDelta]_vars

-----------------------------------------------------------------------------
(* render.rs: BoundingBox as a value (SpecBox) *)

\* The largest coordinate of the corners the boxes are built from.
MaxCoord == 1

BoxPoints == {Coord(x, y) : x \in 0..MaxCoord, y \in 0..MaxCoord}
\* The boxes the constructors give: empty() and from_corners.
Boxes == {BBEmpty} \cup {from_corners(p, q) : p \in BoxPoints, q \in BoxPoints}

\* self.include(point) on box k of the three
BoxInclude(k, point) ==
    /\ output = <<>>
    /\ input' = [input EXCEPT ![k] = include(input[k], point)]
    /\ UNCHANGED <<output, uiVars, rmVars, histVars, fileVars>>

\* The unions of the three boxes a, b, c, and with empty().
BoxUnions ==
    /\ output = <<>>
    /\ LET a == input[1]
           b == input[2]
           c == input[3]
       IN  output' = [op |-> "union",
                      empty_a |-> union(BBEmpty, a), a_empty |-> union(a, BBEmpty),
                      a_b |-> union(a, b), b_a |-> union(b, a),
                      ab_c |-> union(union(a, b), c), a_bc |-> union(a, union(b, c))]
    /\ UNCHANGED <<input, uiVars, rmVars, histVars, fileVars>>

\* The test of async_viewport_tiles that skips a map: the first box the
\* map's bounds, the second the viewport.
BoxIntersection ==
    /\ output = <<>>
    /\ LET met == intersection(input[1], input[2])
       IN  output' = [op |-> "intersection", met |-> met, skipped |-> is_empty(met),
                      is_empty |-> [k \in 1..3 |-> is_empty(input[k])]]
    /\ UNCHANGED <<input, uiVars, rmVars, histVars, fileVars>>

InitBox ==
    /\ frames = 0
    /\ redraw = FALSE
    /\ tiles_ready = {}
    /\ queue = {}
    /\ offset = View.offset
    /\ generation = 0
    /\ cur_generation = 0
    /\ shards = {}
    /\ cache = <<>>
    /\ mutex = 0
    /\ jobs = <<>>
    /\ aborted = FALSE
    /\ corrupt = {}
    /\ painted = {}
    /\ discarded = {}
    /\ gen_high = 0
    /\ delivered = {}
    /\ requests = <<>>
    /\ ui_last = "new"
    /\ file = <<>>
    /\ fcall = <<>>
    /\ input \in Boxes \X Boxes \X Boxes
    /\ output = <<>>

NextBox ==
    \/ \E k \in 1..3, point \in BoxPoints : BoxInclude(k, point)
    \/ BoxUnions
    \/ BoxIntersection

SpecBox == InitBox /\ [][NextBox]_vars

-----------------------------------------------------------------------------
(* Classification and tile construction (SpecClassify): theme.rs and        *)
(* RenderTile::new.  input is the call's argument, output its result.       *)
(* A tag map is a function from tag keys to TagValues; a TagValue is a      *)
(* record [kind, s] with kind the variant's name.  A Color4f is the tuple   *)
(* of its four components in tenths.                                        *)

\* TagMatch::from_values
from_values(values) == [kind |-> "Literal", values |-> values]

\* The inner loop of match_way over one matcher's tags.  The tags are a
\* HashMap, so the loop may meet them in any order: the result is the set of
\* ways the loop can end, "return", "panic" (unimplemented!) or "next" when
\* it runs through.
matcher_outcomes(matcher, way) ==
    LET outcome(tag) ==
            LET tagmatch  == matcher.tags[tag]
                tag_value == way.tags[tag]
            IN  CASE tagmatch.kind = "Present" -> "return"
                  [] tagmatch.kind = "Literal" ->
                        IF tag_value.kind = "Literal" /\ tag_value.s \in tagmatch.values
                        THEN "return" ELSE "next"
                  [] tagmatch.kind = "Regex" -> "panic"
        ends == {outcome(tag) : tag \in DOMAIN matcher.tags \cap DOMAIN way.tags} \ {"next"}
    IN  IF ends = {} THEN {"next"} ELSE ends

\* The loop of match_way from matcher i on: the set of results it can give.
RECURSIVE match_way_from(_, _, _)
match_way_from(theme, way, i) ==
    IF i > Len(theme.matchers) THEN {None}
    ELSE LET matcher == theme.matchers[i]
             area == IF "area" \in DOMAIN way.tags
                     THEN way.tags["area"] = [kind |-> "Literal", s |-> "yes"]
                     ELSE FALSE
         IN  IF matcher.entity_type = "Point" THEN match_way_from(theme, way, i + 1)
             ELSE IF \/ matcher.entity_type = "Area" /\ ~area
                     \/ matcher.entity_type = "Path" /\ area
             THEN match_way_from(theme, way, i + 1)
             ELSE UNION {CASE e = "return" ->
                                {IF matcher.material \in DOMAIN theme.materials
                                 THEN Some(theme.materials[matcher.material])
                                 ELSE None}
                           [] e = "panic" -> {Panic("unimplemented")}
                           [] e = "next" -> match_way_from(theme, way, i + 1)
                         : e \in matcher_outcomes(matcher, way)}

\* Theme::match_way
match_way(theme, way) == match_way_from(theme, way, 1)

\* theme::outline()
outline ==
    [materials |-> [name \in {"outline"} |-> [fill |-> None, stroke |-> Some(<<10, 10, 10, 10>>)]],
     matchers |-> <<[entity_type |-> "Any", tags |-> <<>>, material |-> "outline"]>>]

\* theme::basic()
basic ==
    LET opacity == 8
        Stroke(r, g, b) == [stroke |-> Some(<<r, g, b, opacity>>), fill |-> None]
        Fill(r, g, b) == [stroke |-> None, fill |-> Some(<<r, g, b, opacity>>)]
        water == [tag \in {"natural", "waterway"} |->
                    IF tag = "natural" THEN from_values({"sea", "water"})
                    ELSE [kind |-> "Present"]]
    IN  [materials |->
            [name \in {"water_path", "water_area", "land", "road", "building",
                       "bsrrier", "greenspace", "rail"} |->
                CASE name = "water_path" -> Stroke(2, 2, 10)
                  [] name = "water_area" -> Fill(5, 5, 10)
                  [] name = "land" -> Fill(8, 8, 8)
                  [] name = "road" -> Stroke(2, 2, 2)
                  [] name = "building" -> Fill(6, 6, 6)
                  [] name = "bsrrier" -> Stroke(4, 2, 2)
                  [] name = "greenspace" -> Fill(8, 10, 8)
                  [] name = "rail" -> Stroke(2, 2, 8)],
         matchers |-> <<
            [entity_type |-> "Area", tags |-> water, material |-> "water_area"],
            [entity_type |-> "Area",
             tags |-> [tag \in {"natural"} |-> from_values({"nosea"})],
             material |-> "land"],
            [entity_type |-> "Path", tags |-> water, material |-> "water_path"],
            [entity_type |-> "Path",
             tags |-> [tag \in {"highway", "bridge", "aeroway"} |->
                         IF tag = "aeroway" THEN from_values({"apron", "runway", "taxiway"})
                         ELSE [kind |-> "Present"]],
             material |-> "road"],
            [entity_type |-> "Path",
             tags |-> [tag \in {"barrier"} |-> [kind |-> "Present"]],
             material |-> "barrier"],
            [entity_type |-> "Path",
             tags |-> [tag \in {"building"} |-> [kind |-> "Present"]],
             material |-> "building"],
            [entity_type |-> "Area",
             tags |-> [tag \in {"landuse", "leisure", "natural"} |->
                         CASE tag = "landuse" ->
                                from_values({"brownfield", "cemetery", "farm", "farmland",
                                             "farmyard", "forest", "grass", "meadow",
                                             "orchard", "recreation_ground",
                                             "village_green", "vineyard", "wood"})
                           [] tag = "leisure" ->
                                from_values({"dog_park", "garden", "nature_reserve", "park",
                                             "pitch", "playground"})
                           [] tag = "natural" ->
                                from_values({"grassland", "heath", "land", "marsh", "scrub",
                                             "wetland"})],
             material |-> "greenspace"],
            [entity_type |-> "Path",
             tags |-> [tag \in {"railway"} |-> from_values({"rail"})],
             material |-> "rail"] >>]

\* The tag maps of the ways: no area tag or one of three, and up to two other
\* tags, of the keys the themes name and one they do not.
TagMaps ==
    LET Lit(s) == [kind |-> "Literal", s |-> s]
        Str(s) == [kind |-> "String", s |-> s]
        Areas == {<<"area", Lit("yes")>>, <<"area", Lit("no")>>, <<"area", Str("yes")>>}
        Others == {<<"natural", Lit("water")>>, <<"natural", Lit("nosea")>>,
                   <<"natural", Lit("land")>>, <<"natural", Str("water")>>,
                   <<"natural", Lit("peak")>>, <<"waterway", Lit("river")>>,
                   <<"highway", Lit("path")>>, <<"bridge", Lit("yes")>>,
                   <<"aeroway", Lit("runway")>>, <<"aeroway", Lit("gate")>>,
                   <<"barrier", Lit("fence")>>, <<"building", Lit("yes")>>,
                   <<"landuse", Lit("forest")>>, <<"leisure", Lit("park")>>,
                   <<"railway", Lit("rail")>>, <<"railway", Lit("tram")>>,
                   <<"name", Str("x")>>}
        Picks == {{}} \cup {a \in {{p, q} : p \in Others, q \in Others} :
                              \A p \in a, q \in a : p[1] = q[1] => p = q}
        TagMap(S) == [tag \in {p[1] : p \in S} |-> (CHOOSE p \in S : p[1] = tag)[2]]
    IN  {TagMap(a \cup S) : a \in {{}} \cup {{p} : p \in Areas}, S \in Picks}

\* The largest numbers of ways and of POIs in a tile.
MaxWays == 2
MaxPois == 2

\* render::Material::from_tags
from_tags(tags) ==
    LET Literal(tag) == IF tag \in DOMAIN tags THEN tags[tag].kind = "Literal" ELSE FALSE
    IN  IF Literal("natural")
        THEN CASE tags["natural"].s \in {"sea", "water"} -> Some("Water")
               [] tags["natural"].s = "nosea" -> Some("Land")
               [] tags["natural"].s \in {"grassland", "heath", "land", "marsh", "scrub",
                                         "wetland"} -> Some("Greenspace")
               [] OTHER -> None
        ELSE IF Literal("leisure")
        THEN IF tags["leisure"].s \in {"dog_park", "garden", "nature_reserve", "park",
                                       "pitch", "playground"}
             THEN Some("Greenspace") ELSE None
        ELSE IF Literal("landuse")
        THEN IF tags["landuse"].s \in {"brownfield", "cemetery", "farm", "farmland",
                                       "farmyard", "forest", "grass", "meadow", "orchard",
                                       "recreation_ground", "village_green", "vineyard",
                                       "wood"}
             THEN Some("Greenspace") ELSE None
        ELSE IF "building" \in DOMAIN tags THEN Some("Building")
        ELSE IF "highway" \in DOMAIN tags THEN Some("Road")
        ELSE IF "barrier" \in DOMAIN tags THEN Some("Barrier")
        ELSE None

\* RenderTile::new.  layers is the BTreeMap, a function from the layers in
\* use to the vectors of their objects.  A projected block or point stands
\* as the place of its feature in the tile (way and block number, or POI
\* number) and whether its extent on screen exceeds MAX_DETAIL.
RenderTile_new(raw, zoom, x, y) ==
    LET push(layers, layer, obj) ==
            IF layer \in DOMAIN layers
            THEN [layers EXCEPT ![layer] = Append(@, obj)]
            ELSE [l \in DOMAIN layers \cup {layer} |->
                    IF l = layer THEN <<obj>> ELSE layers[l]]
        RECURSIVE blocks(_, _, _, _)
        blocks(layers, i, j, material) ==
            LET way == raw.ways[i]
            IN  IF j > Len(way.blocks) THEN layers
                ELSE blocks(push(layers, way.layer,
                                 [geo |-> [kind |-> "Path", way |-> i, block |-> j,
                                           detail |-> way.blocks[j]],
                                  name |-> way.name, material |-> material]),
                            i, j + 1, material)
        RECURSIVE ways(_, _)
        ways(layers, i) ==
            IF i > Len(raw.ways) THEN layers
            ELSE LET material == from_tags(raw.ways[i].tags)
                 IN  IF material # None
                     THEN ways(blocks(layers, i, 1, material[1]), i + 1)
                     ELSE ways(layers, i + 1)
        RECURSIVE pois(_, _)
        pois(layers, k) ==
            IF k > Len(raw.pois) THEN layers
            ELSE LET poi == raw.pois[k]
                     material == from_tags(poi.tags)
                 IN  IF material # None
                     THEN pois(push(layers, poi.layer,
                                    [geo |-> [kind |-> "Point", poi |-> k],
                                     name |-> poi.name, material |-> material[1]]),
                               k + 1)
                     ELSE pois(layers, k + 1)
    IN  [zoom |-> zoom, x |-> x, y |-> y, layers |-> pois(ways(<<>>, 1), 1)]

\* The iteration of a BTreeMap<i8, _>: the least key first.
first_key_last(keys) == CHOOSE l \in keys : \A k \in keys : k <= l
first_key(keys) == CHOOSE l \in keys : \A k \in keys : l <= k

\* The loops of place_tile over tile.layers and the objects of a layer: the
\* objects in the order they are visited.
RECURSIVE visit(_, _)
visit(layers, keys) ==
    IF keys = {} THEN <<>>
    ELSE LET l == first_key(keys)
         IN  layers[l] \o visit(layers, keys \ {l})

\* The tiles: up to MaxWays ways and MaxPois POIs, on layers below and above
\* 0, classified (building, water) or not (a peak), ways of one or two blocks.
Tiles ==
    LET Lit(s) == [kind |-> "Literal", s |-> s]
        Tags == {[tag \in {"building"} |-> Lit("yes")],
                 [tag \in {"natural"} |-> Lit("water")],
                 [tag \in {"natural", "building"} |->
                    IF tag = "natural" THEN Lit("peak") ELSE Lit("yes")]}
        Ways == [tags : Tags, layer : {-1, 1}, name : {None},
                 blocks : {<<TRUE>>, <<FALSE, TRUE>>}]
        Pois == [tags : {tags \in Tags : "building" \in DOMAIN tags}, layer : {-1, 1},
                 name : {None}]
        UpTo(S, n) == UNION {[1..len -> S] : len \in 0..n}
    IN  [ways : UpTo(Ways, MaxWays), pois : UpTo(Pois, MaxPois)]

\* RenderTile::new(tile, zoom, x, y)
CallRenderTileNew ==
    /\ output = <<>>
    /\ input.op = "RenderTile::new"
    /\ output' = [op |-> "RenderTile::new", tile |-> RenderTile_new(input.tile, 1, 1, 1)]
    /\ UNCHANGED <<input, uiVars, rmVars, histVars, fileVars>>

\* place_tile(canvas, tile) on the tile made: the objects visited, and of
\* them those drawn on the canvas (a point always, a path when its extent
\* exceeds MAX_DETAIL).
PlaceTile ==
    /\ output # <<>>
    /\ output.op = "RenderTile::new"
    /\ LET visited == visit(output.tile.layers, DOMAIN output.tile.layers)
           Drawn(obj) == IF obj.geo.kind = "Path" THEN obj.geo.detail ELSE TRUE
       IN  output' = [op |-> "place_tile", tile |-> output.tile,
                      visited |-> visited, canvas |-> SelectSeq(visited, Drawn)]
    /\ UNCHANGED <<input, uiVars, rmVars, histVars, fileVars>>

\* theme.match_way(&way), for either default theme
CallMatchWay ==
    /\ output = <<>>
    /\ input.op = "match_way"
    /\ \E result \in match_way(input.theme, input.way) :
          output' = [op |-> "match_way", result |-> result]
    /\ UNCHANGED <<input, uiVars, rmVars, histVars, fileVars>>

InitClassify ==
    /\ frames = 0
    /\ redraw = FALSE
    /\ tiles_ready = {}
    /\ queue = {}
    /\ offset = View.offset
    /\ generation = 0
    /\ cur_generation = 0
    /\ shards = {}
    /\ cache = <<>>
    /\ mutex = 0
    /\ jobs = <<>>
    /\ aborted = FALSE
    /\ corrupt = {}
    /\ painted = {}
    /\ discarded = {}
    /\ gen_high = 0
    /\ delivered = {}
    /\ requests = <<>>
    /\ ui_last = "new"
    /\ file = <<>>
    /\ fcall = <<>>
    /\ \/ \E theme \in {outline, basic}, tags \in TagMaps :
             input = [op |-> "match_way", theme |-> theme, way |-> [tags |-> tags]]
       \/ \E raw \in Tiles : input = [op |-> "RenderTile::new", tile |-> raw]
    /\ output = <<>>

NextClassify ==
    \/ CallMatchWay
    \/ CallRenderTileNew
    \/ PlaceTile

SpecClassify == InitClassify /\ [][NextClassify]_vars

-----------------------------------------------------------------------------
(* mapsforge/mod.rs: the tile arithmetic on the corners of a bounding box   *)
(* (SpecTiles).  input is a level and a box, output the result of a call.   *)

\* The boxes of a map header: lat_min <= lat_max and lon_min <= lon_max, of
\* latitudes and longitudes on, next to and away from the edges of the tiles
\* and beyond the limits the program clamps to.
GeoBoxes ==
    LET Lats == {-90000000, -66513261, -66513260, -1, 0, 1, 66513260, 66513261,
                 85051128, 90000000}
        Lons == {-180000000, -90000001, -90000000, -1, 0, 1, 90000000, 179999900,
                 180000000}
    IN  {GeoBox(lat[1], lon[1], lat[2], lon[2]) :
            lat \in {l \in Lats \X Lats : l[1] <= l[2]},
            lon \in {l \in Lons \X Lons : l[1] <= l[2]}}

\* biased_coord2tile(level, coord, false) and (level, coord, true) for a
\* corner of the box: 1 the min corner, 2 the max corner of minmax().
CallCoord2Tile(corner) ==
    /\ output = <<>>
    /\ LET coord == minmax(input.bounds)[corner]
       IN  output' = [op |-> "biased_coord2tile", coord |-> coord,
                      unbiased |-> biased_coord2tile(input.level, coord, FALSE),
                      biased |-> biased_coord2tile(input.level, coord, TRUE)]
    /\ UNCHANGED <<input, uiVars, rmVars, histVars, fileVars>>

\* num_tiles(level, &bounds), and tile_idx_in_box for the tiles of the level.
\* The differences max.0 - min.0 and max.1 - min.1 are u32: where max is
\* below min a build with overflow checks panics and one without wraps, to
\* 2^32 - 1 and with the + 1 on to 0 (max is then min - 1), which is the sum
\* num_tiles gives in the integers.
CallNumTiles(overflow_checks) ==
    /\ output = <<>>
    /\ LET min == biased_coord2tile(input.level, minmax(input.bounds)[1], FALSE)
           max == biased_coord2tile(input.level, minmax(input.bounds)[2], TRUE)
           n == num_tiles(input.level, input.bounds)
       IN  output' = [op |-> "num_tiles", min |-> min, max |-> max,
                      result |-> IF overflow_checks /\ (max[1] < min[1] \/ max[2] < min[2])
                                 THEN Panic("attempt to subtract with overflow")
                                 ELSE [kind |-> "count", n |-> n],
                      indices |-> [t \in TileXY \X TileXY |->
                                      tile_idx_in_box(input.level, input.bounds, t[1], t[2])]]
    /\ UNCHANGED <<input, uiVars, rmVars, histVars, fileVars>>

InitTiles ==
    /\ frames = 0
    /\ redraw = FALSE
    /\ tiles_ready = {}
    /\ queue = {}
    /\ offset = View.offset
    /\ generation = 0
    /\ cur_generation = 0
    /\ shards = {}
    /\ cache = <<>>
    /\ mutex = 0
    /\ jobs = <<>>
    /\ aborted = FALSE
    /\ corrupt = {}
    /\ painted = {}
    /\ discarded = {}
    /\ gen_high = 0
    /\ delivered = {}
    /\ requests = <<>>
    /\ ui_last = "new"
    /\ file = <<>>
    /\ fcall = <<>>
    /\ \E level \in TileLevels, bounds \in GeoBoxes :
          input = [level |-> level, bounds |-> bounds]
    /\ output = <<>>

NextTiles ==
    \/ \E corner \in {1, 2} : CallCoord2Tile(corner)
    \/ \E overflow_checks \in BOOLEAN : CallNumTiles(overflow_checks)

SpecTiles == InitTiles /\ [][NextTiles]_vars

-----------------------------------------------------------------------------
(* main.rs: the viewer's scale and offset under zoom, pan and zoom-to-fit   *)
(* (SpecZoom).  input is the viewer [size, scale, offset], output the last  *)
(* operation and the viewport it leaves.                                    *)

\* The largest factor of one call of zoom (the wheel steps or key presses of
\* one iteration, summed), and the limits on the scale and the offset within
\* which the model follows the viewer.
MaxFactor == 4
MaxScale == 8
MaxOffset == 24

\* Viewer::zoom: the viewers the call can leave.  ZOOM_MULTIPLIER is 6/5, so
\* scale_mul is 6^f / 5^f; on the model's range the f64 quotient rounded is
\* the rational one rounded half away from zero.  center * offset_mul is cut
\* to an i64; where the rational product is a whole number the f64 one may
\* fall short of it, and both outcomes are kept.
zoom(viewer, factor, center) ==
    LET f == IF factor < 0 THEN 0 - factor ELSE factor
        up == IF factor > 0 THEN 5 ^ f ELSE 6 ^ f
        down == IF factor > 0 THEN 6 ^ f ELSE 5 ^ f
        scale == (2 * viewer.scale * up + down) \div (2 * down)
        num == scale * (up - down)
        Cut(c) ==
            LET a == c * num
                mag == (IF a < 0 THEN 0 - a ELSE a) \div up
                sign == IF a < 0 THEN -1 ELSE 1
            IN  IF a # 0 /\ a % up = 0 THEN {sign * mag, sign * (mag - 1)}
                ELSE {sign * mag}
    IN  {[viewer EXCEPT !.scale = scale,
                        !.offset = Coord(viewer.offset.x - dx, viewer.offset.y - dy)] :
            dx \in Cut(center[1]), dy \in Cut(center[2])}

\* Viewer::viewport of the viewer
ViewportOf(viewer) ==
    from_corners(viewer.offset,
                 Coord(viewer.offset.x + viewer.size[1] * viewer.scale,
                       viewer.offset.y + viewer.size[2] * viewer.scale))

InRange(viewer) ==
    /\ viewer.scale <= MaxScale
    /\ viewer.offset.x \in (0 - MaxOffset)..MaxOffset
    /\ viewer.offset.y \in (0 - MaxOffset)..MaxOffset

\* Viewer::update on a wheel or key zoom: the wheel zooms about the mouse
\* position, the keys about the middle of the window.
ViewerZoom(factor, center) ==
    \E viewer \in zoom(input, factor, center) :
        /\ InRange(viewer)
        /\ input' = viewer
        /\ output' = [op |-> "zoom", viewport |-> ViewportOf(viewer)]
        /\ UNCHANGED <<uiVars, rmVars, histVars, fileVars>>

\* Viewer::update on a drag: Viewer::pan
ViewerPan(delta) ==
    LET viewer == [input EXCEPT !.offset = Coord(input.offset.x - delta[1] * input.scale,
                                                 input.offset.y - delta[2] * input.scale)]
    IN  /\ InRange(viewer)
        /\ input' = viewer
        /\ output' = [op |-> "pan", viewport |-> ViewportOf(viewer)]
        /\ UNCHANGED <<uiVars, rmVars, histVars, fileVars>>

\* Viewer::update on the reset key: Viewer::zoom_to_fit
ViewerFit ==
    /\ input' = zoom_to_fit(input.size)
    /\ output' = [op |-> "zoom_to_fit", viewport |-> ViewportOf(zoom_to_fit(input.size))]
    /\ UNCHANGED <<uiVars, rmVars, histVars, fileVars>>

\* Viewer::new
InitZoom ==
    /\ frames = 0
    /\ redraw = FALSE
    /\ tiles_ready = {}
    /\ queue = {}
    /\ offset = View.offset
    /\ generation = 0
    /\ cur_generation = 0
    /\ shards = {}
    /\ cache = <<>>
    /\ mutex = 0
    /\ jobs = <<>>
    /\ aborted = FALSE
    /\ corrupt = {}
    /\ painted = {}
    /\ discarded = {}
    /\ gen_high = 0
    /\ delivered = {}
    /\ requests = <<>>
    /\ ui_last = "new"
    /\ file = <<>>
    /\ fcall = <<>>
    /\ input = zoom_to_fit(WindowSize)
    /\ output = [op |-> "new", viewport |-> ViewportOf(zoom_to_fit(WindowSize))]

NextZoom ==
    \/ \E factor \in ((0 - MaxFactor)..MaxFactor) \ {0},
          center \in {<<0, 0>>, <<3, 1>>, <<WindowSize[1] \div 2, WindowSize[2] \div 2>>} :
          ViewerZoom(factor, center)
    \/ \E delta \in {<<-1, 0>>, <<1, 0>>, <<0, 1>>} : ViewerPan(delta)
    \/ ViewerFit

SpecZoom == InitZoom /\ [][NextZoom]_vars

-----------------------------------------------------------------------------
(* Properties of the viewer (Spec) *)

JobIds == 1..Len(jobs)
DeliveredBy(j) == {d \in delivered : d.job = j}

\* C1: Generation monotonicity.  Once the viewer's generation has reached g,
\* draw places no tile stamped with a generation below g (every placed tile
\* carries the highest generation the viewer has had), and a draw leaves
\* nothing in tiles_ready: the older tiles it drained are gone.
C1_GenerationMonotonicity ==
    /\ \A p \in painted : p.stamp >= p.high
    /\ \A d \in discarded : d.stamp # d.viewgen
    /\ ui_last = "draw" => tiles_ready = {}

\* A draw that dropped a tile of an older generation and painted one of the
\* current generation.
C1_Witness ==
    \E d \in discarded, p \in painted :
        d.stamp < d.viewgen /\ p.viewgen = d.viewgen /\ p.stamp = p.viewgen

\* C2: Stale job.  A job that loads a current generation above its own returns
\* at once: it parses nothing, inserts nothing (no tile of its making is in the
\* cache) and sends nothing.  A job that is not stale and returns has
\* delivered exactly one tile, of its own (x, y) and stamped with its own
\* generation, and it has parsed exactly when its lookup missed; it has parsed
\* when the only other jobs for its tile were earlier ones that returned stale.
C2_StaleJob ==
    \A j \in JobIds :
        LET job == jobs[j] IN
        /\ (job.seen > job.generation) =>
              /\ job.pc = "done"
              /\ job.parsed = 0 /\ job.inserted = 0 /\ job.sent = 0
              /\ DeliveredBy(j) = {}
              /\ \A k \in DOMAIN cache : cache[k].id # <<j>>
        /\ (job.pc = "done" /\ job.seen <= job.generation) =>
              /\ job.sent = 1
              /\ Cardinality(DeliveredBy(j)) = 1
              /\ \A d \in DeliveredBy(j) :
                    /\ d.generation = job.generation
                    /\ <<d.tile.x, d.tile.y>> = <<job.x, job.y>>
              /\ job.parsed = (IF job.cached = None THEN 1 ELSE 0)
        /\ (/\ job.pc = "done" /\ job.seen <= job.generation
            /\ \A k \in JobIds \ {j} :
                   <<jobs[k].x, jobs[k].y>> = <<job.x, job.y>> =>
                       (k < j /\ jobs[k].seen > jobs[k].generation)) =>
              job.parsed = 1

\* A job of generation g returned as stale, having left the cache without its
\* tile, and a job of a newer generation for the same tile parsed the tile and
\* delivered it.
C2_Witness ==
    \E j1, j2 \in JobIds :
        /\ jobs[j1].pc = "done" /\ jobs[j1].seen > jobs[j1].generation
        /\ jobs[j2].generation > jobs[j1].generation
        /\ <<jobs[j2].x, jobs[j2].y>> = <<jobs[j1].x, jobs[j1].y>>
        /\ jobs[j2].pc = "done" /\ jobs[j2].parsed = 1
        /\ \E d \in DeliveredBy(j2) : d.generation = jobs[j2].generation

\* What the request stamped gen has delivered, and the tile identities
\* (zoom, x, y) among it; the viewer shows one map.
DeliveredFor(gen) == {d \in delivered : d.generation = gen}
Identities(gen) == {<<d.tile.zoom, d.tile.x, d.tile.y>> : d \in DeliveredFor(gen)}
JobsOf(gen) == {j \in JobIds : jobs[j].generation = gen}

\* C3 as stated: with the viewport unchanged and some earlier request's jobs
\* all finished (warm-up), a later request delivers the identities the
\* request before it delivered, and each tile it delivers is the object the
\* request before it delivered.
C3_CacheCoherence_AsStated ==
    \A r \in 2..Len(requests) :
        LET R == requests[r]
            P == requests[r - 1]
        IN  (R.warm /\ R.viewport = P.viewport) =>
                /\ RequestFinished(R.generation) => Identities(R.generation) = Identities(P.generation)
                /\ \A d \in DeliveredFor(R.generation) :
                       \E d0 \in DeliveredFor(P.generation) : d0.tile = d.tile

\* C3 (amended): with the viewport unchanged and requests that do not overlap
\* (each is made when every job of the earlier requests has returned), a
\* request whose jobs have returned has delivered the identities the request
\* before it delivered, and every tile a worker job delivered for it is the
\* object the request before it delivered for that identity.
C3_CacheCoherence ==
    \A r \in 2..Len(requests) :
        LET R == requests[r]
            P == requests[r - 1]
        IN  (/\ R.quiet /\ P.quiet /\ R.viewport = P.viewport
             /\ RequestFinished(R.generation)
             /\ \A j \in JobsOf(R.generation) : ~jobs[j].stale) =>
                /\ Identities(R.generation) = Identities(P.generation)
                /\ \A d \in DeliveredFor(R.generation) :
                       d.job # 0 => \E d0 \in DeliveredFor(P.generation) :
                                        d0.tile = d.tile /\ d0.job # 0

\* Two requests for the same viewport, one after the other, the second served
\* from the cache by a worker job.
C3_Witness ==
    \E r \in 2..Len(requests) :
        LET R == requests[r]
            P == requests[r - 1]
        IN  /\ R.quiet /\ P.quiet /\ R.viewport = P.viewport
            /\ RequestFinished(R.generation)
            /\ \E j \in JobsOf(R.generation) :
                   /\ ~jobs[j].stale /\ jobs[j].cached # None
                   /\ DeliveredBy(j) # {}

\* C4 as stated: of the tiles of a request's range, those with x or y below 0
\* or above 2^z are delivered at once as empty tiles stamped with the
\* request's generation, with no job (so no parse); every other tile, those
\* with 0 <= x <= 2^z and 0 <= y <= 2^z, gets a worker job.
C4_OffMapRange_AsStated ==
    \A r \in 1..Len(requests) :
        \A t \in requests[r].tiles :
            LET gen == requests[r].generation
                n == Pow2(ViewZoom[1])
                job == \E j \in JobsOf(gen) : <<jobs[j].x, jobs[j].y>> = t
                sent == \E d \in DeliveredFor(gen) :
                            /\ d.job = 0 /\ d.tile.layers = "none"
                            /\ <<d.tile.x, d.tile.y>> = t
            IN  IF t[1] < 0 \/ t[2] < 0 \/ t[1] > n \/ t[2] > n
                THEN sent /\ ~job
                ELSE job

\* C5 as stated: a job whose parse failed has still delivered an empty tile
\* stamped with its generation.
C5_ParseFailure_AsStated ==
    \A j \in JobIds :
        jobs[j].pc = "panicked" =>
            \E d \in DeliveredBy(j) :
                d.generation = jobs[j].generation /\ d.tile.layers = "none"

\* C5 (amended): a parse failure is a panic of the job.  A job for a tile
\* whose records do not parse inserts nothing and delivers nothing, placeholder
\* or other; once its parse has failed the process is aborted: no frame and no
\* other job takes another step.
C5_ParseFailure ==
    \A j \in JobIds :
        <<jobs[j].x, jobs[j].y>> \in corrupt =>
            /\ jobs[j].sent = 0 /\ jobs[j].inserted = 0
            /\ DeliveredBy(j) = {}
            /\ jobs[j].pc = "panicked" => (aborted /\ ~ENABLED Next)

\* A job's parse failed while another job was running.
C5_Witness ==
    \E j, k \in JobIds :
        /\ jobs[j].pc = "panicked"
        /\ jobs[k].pc \notin {"spawned", "done", "panicked"}


-----------------------------------------------------------------------------
(* Properties of the map file (SpecFile) *)

IsCall(op) == fcall # <<>> /\ fcall.op = op
IntervalsOf(f) == f.header.zoom_intervals
Covers(zoom_interval, level) == level \in zoom_interval.min .. zoom_interval.max

\* C6: MapFile::tile(z, x, y) with z inside some interval's [min, max] but not
\* that interval's base zoom ends in the "unimplemented" abort and returns no
\* Tile, whatever x and y are.
C6_NonBaseZoom ==
    IsCall("tile") =>
        \A i \in 1..Len(IntervalsOf(file)) :
            (Covers(IntervalsOf(file)[i], fcall.zoom) /\ IntervalsOf(file)[i].base # fcall.zoom)
                => fcall.result = Panic("unimplemented")

\* A tile request at zoom 3 of an interval [2, 4] with base 2 has aborted.
C6_Witness ==
    /\ IsCall("tile")
    /\ fcall.zoom = 3
    /\ \E i \in 1..Len(IntervalsOf(file)) :
           IntervalsOf(file)[i].min = 2 /\ IntervalsOf(file)[i].max = 4
    /\ fcall.result = Panic("unimplemented")

\* C7 (as stated): desired_zoom_level returns the base zoom of an interval
\* covering the clamped target when there is one and none otherwise, so every
\* zoom it returns is the base zoom of some interval of the file.
C7_DesiredZoomLevel_AsStated ==
    IsCall("desired_zoom_level") =>
        LET target == Clamp(fcall.cur_zoom + RoundLog2(fcall.tile_size, file.header.tile_size), 0, 22)
            covering == {i \in 1..Len(IntervalsOf(file)) : Covers(IntervalsOf(file)[i], target)}
        IN  /\ covering # {} =>
                /\ fcall.result.kind = "zoom"
                /\ \E i \in covering : fcall.result.zoom = IntervalsOf(file)[i].base
            /\ covering = {} => fcall.result.kind = "none"
            /\ fcall.result.kind = "zoom" =>
                \E i \in 1..Len(IntervalsOf(file)) : fcall.result.zoom = IntervalsOf(file)[i].base

\* C8 (as stated): MapFile::tile at a base zoom returns an empty Tile whenever
\* (x, y) is outside the tile box or the tile's index entry has bit 39 set, and
\* otherwise parses at subfile_start plus the low 39 bits of the entry.
C8_TileLookup_AsStated ==
    (IsCall("tile") /\ fcall.result.kind = "tile") =>
        LET subfile_num == file.zoom_interval_map[fcall.zoom]
            subfile == IntervalsOf(file)[subfile_num]
            idx == tile_idx_in_box(fcall.zoom, file.header.bounds, fcall.x, fcall.y)
        IN  IF idx = None THEN fcall.result.parsed_at = None
            ELSE LET entry == file.data[subfile_num][idx[1] + 1]
                 IN  IF Bit39(entry) THEN fcall.result.parsed_at = None
                     ELSE fcall.result.parsed_at = Some(U64Add(subfile.start, Low39(entry)))

-----------------------------------------------------------------------------
(* Properties of the codec (SpecCodec) *)

Decoded(op) == output # <<>> /\ output.op = op /\ output.result.kind = "ok"
\* The position (from 1) of the first byte of the input with the high bit clear.
Terminator == take_while_continues(input) + 1

\* C9 (as stated): the terminating byte's 7 low bits are the least significant
\* 7 bits of vbe_u's result and the continuation bytes before it supply the
\* higher groups, the nearest to the terminator first.
C9_VbeU_AsDescribed ==
    Decoded("vbe_u") =>
        LET k == Terminator
        IN  /\ output.result.value[1] = (input[k] % 128)
            /\ \A g \in Groups : (1 < g /\ g <= k) =>
                   output.result.value[g] = (IF g = 10 THEN (input[k + 1 - g] % 128) % 2
                                             ELSE (input[k + 1 - g] % 128))

\* C9 (amended): the terminating byte is the most significant group of the
\* result: the continuation bytes supply the groups below it, the first byte
\* of the input the least significant, and nothing lies above the terminator's
\* group; what does not fit in 64 bits is dropped.
C9_VbeU_TerminatorHighest ==
    Decoded("vbe_u") =>
        LET k == Terminator
        IN  \A g \in Groups :
                output.result.value[g] =
                    (IF g > k THEN 0
                     ELSE IF g = 10 THEN input[g] % 2
                     ELSE (input[g] % 128))

\* {0x80, 0x01} has been decoded: the terminator 0x01 is the second group.
C9_Witness ==
    /\ Decoded("vbe_u")
    /\ input = <<128, 1>>
    /\ output.result.value = [g \in Groups |-> IF g = 2 THEN 1 ELSE 0]

\* The sum over i < k of (b[i] & 0x7f) * 2^(7i), plus b[k] * 2^(7k), as its
\* 7-bit groups, lowest first (k from 0, b from 1).
SumGroups(b, k) == [g \in 1..(k + 1) |-> IF g = k + 1 THEN b[g] ELSE b[g] % 128]
\* The number of a u64 kept as groups equals the number of a group sequence.
SameNumber(v, groups) ==
    /\ \A g \in Groups : v[g] = (IF g \in DOMAIN groups THEN groups[g] ELSE 0)
    /\ \A g \in DOMAIN groups : g \notin Groups => groups[g] = 0
\* The number of a u64 kept as groups equals that of a group sequence modulo 2^64.
SameNumberMod64(v, groups) ==
    \A g \in Groups :
        v[g] = (IF g \notin DOMAIN groups THEN 0
                ELSE IF g = 10 THEN groups[g] % 2
                ELSE groups[g])

\* C10 (as stated): vbe_u consumes bytes 0..k, k the position of the first
\* byte with the high bit clear, leaves the bytes after it as remainder, and
\* returns the sum over i < k of (b[i] & 0x7f) * 2^(7i) plus b[k] * 2^(7k).
C10_VbeU_AsTested ==
    Decoded("vbe_u") =>
        /\ output.result.remainder = SubSeq(input, Terminator + 1, Len(input))
        /\ SameNumber(output.result.value, SumGroups(input, Terminator - 1))

\* C10 (amended): as stated, with the sum taken modulo 2^64.
C10_VbeU_Mod64 ==
    Decoded("vbe_u") =>
        /\ output.result.remainder = SubSeq(input, Terminator + 1, Len(input))
        /\ SameNumberMod64(output.result.value, SumGroups(input, Terminator - 1))

\* {0x80, 0x01, 0x81} has been decoded to 128, leaving {0x81}.
C10_Witness ==
    /\ Decoded("vbe_u")
    /\ input = <<128, 1, 129>>
    /\ output.result.remainder = <<129>>
    /\ output.result.value = [g \in Groups |-> IF g = 2 THEN 1 ELSE 0]

\* The magnitude the format gives a vbe_s input with terminator at k (from
\* 0): the groups of the sum over i < k of (b[i] & 0x7f) * 2^(7i) plus
\* (b[k] & 0x3f) * 2^(7k), lowest first.
MagnitudeGroups(b, k) == [g \in 1..(k + 1) |-> IF g = k + 1 THEN b[g] % 64 ELSE b[g] % 128]
\* The groups of a number reduced modulo 2^64.
Mod64(groups) ==
    [g \in Groups |-> IF g \notin DOMAIN groups THEN 0
                      ELSE IF g = 10 THEN groups[g] % 2
                      ELSE groups[g]]
\* The number fits in 63 bits / is at most 2^63.
Below2p63(groups) == \A g \in DOMAIN groups : g >= 10 => groups[g] = 0
AtMost2p63(groups) ==
    \/ Below2p63(groups)
    \/ /\ \A g \in DOMAIN groups : g > 10 => groups[g] = 0
       /\ Mod64(groups) = I64Min /\ groups[10] = 1
Negative(b) == (b[Terminator] \div 64) % 2 = 1

\* C11 (as stated): vbe_s returns plus or minus the magnitude, the sum over
\* i < k of (b[i] & 0x7f) * 2^(7i) plus (b[k] & 0x3f) * 2^(7k), minus when
\* bit 6 of the terminator is set, and leaves the input after position k.
C11_VbeS_AsStated ==
    (output # <<>> /\ output.op = "vbe_s" /\ output.result.kind # "err") =>
        LET m == MagnitudeGroups(input, Terminator - 1)
        IN  /\ output.result.kind = "ok"
            /\ output.result.remainder = SubSeq(input, Terminator + 1, Len(input))
            /\ IF Negative(input)
               THEN AtMost2p63(m) /\ output.result.value = Neg64(Mod64(m))
               ELSE Below2p63(m) /\ output.result.value = Mod64(m)

\* C11 (amended): the magnitude is that sum modulo 2^64, and the result is
\* the i64 with the bits of the magnitude, negated modulo 2^64 when bit 6 of
\* the terminator is set; the remainder is the input after position k.  The
\* one call that does not return is the negation of the magnitude 2^63 in a
\* build with overflow checks, which panics.
C11_VbeS_Mod64 ==
    (output # <<>> /\ output.op = "vbe_s" /\ output.result.kind # "err") =>
        LET m == Mod64(MagnitudeGroups(input, Terminator - 1))
        IN  IF output.result.kind = "panic" THEN Negative(input) /\ m = I64Min
            ELSE /\ output.result.remainder = SubSeq(input, Terminator + 1, Len(input))
                 /\ output.result.value = (IF Negative(input) THEN Neg64(m) ELSE m)

\* {0x81, 0x41} has been decoded to -129: the bits of 2^64 - 129.
C11_Witness ==
    /\ Decoded("vbe_s")
    /\ input = <<129, 65>>
    /\ output.result.remainder = <<>>
    /\ output.result.value = [g \in Groups |-> IF g = 1 THEN 127 ELSE IF g = 2 THEN 126
                                               ELSE IF g = 10 THEN 1 ELSE 127]

-----------------------------------------------------------------------------
(* Properties of the delta decoding (SpecDelta) *)

\* c = a + b over the integers, for i32 a, b and c.
IsSum(c, a, b) == ~AddOverflows(a, b) /\ c = a + b
\* c = 2a - b + d over the integers, for i32 a, b, c and d: compared in two
\* 16-bit halves, whose sums stay small.
IsSecondDifference(c, a, b, d) ==
    LET H(x) == x \div 65536
        L(x) == x % 65536
        lo == L(c) - 2 * L(a) + L(b) - L(d)
        hi == H(c) - 2 * H(a) + H(b) - H(d)
    IN  lo % 65536 = 0 /\ hi + lo \div 65536 = 0

Returned12 == output # <<>> /\ output.op = "decode_double_delta"

\* C12 (as stated): the decoded series p of stored s has p[0] = s[0],
\* p[1] = p[0] + s[1] and p[i] = 2 p[i-1] - p[i-2] + s[i] from there on, in
\* lat and in lon.
C12_DoubleDelta_AsStated ==
    Returned12 =>
        /\ output.result.kind = "ok"
        /\ LET p == output.result.value
               s == input
           IN  /\ Len(p) = Len(s)
               /\ \A i \in 1..Len(s) :
                      IF i = 1 THEN p[1] = s[1]
                      ELSE IF i = 2 THEN /\ IsSum(p[2].lat, p[1].lat, s[2].lat)
                                         /\ IsSum(p[2].lon, p[1].lon, s[2].lon)
                      ELSE /\ IsSecondDifference(p[i].lat, p[i - 1].lat, p[i - 2].lat, s[i].lat)
                           /\ IsSecondDifference(p[i].lon, p[i - 1].lon, p[i - 2].lon, s[i].lon)

\* The series the recurrence gives for stored s when every sum is taken
\* modulo 2^32: its first n points.
RECURSIVE Recurrence(_, _)
Recurrence(s, n) ==
    IF n = 0 THEN <<>>
    ELSE LET p == Recurrence(s, n - 1)
             W(a, b, d) == Add32(Sub32(Add32(a, a), b), d)
         IN  Append(p,
                 IF n = 1 THEN s[1]
                 ELSE IF n = 2 THEN LatLon(Add32(p[1].lat, s[2].lat), Add32(p[1].lon, s[2].lon))
                 ELSE LatLon(W(p[n - 1].lat, p[n - 2].lat, s[n].lat),
                             W(p[n - 1].lon, p[n - 2].lon, s[n].lon)))

\* Computing point i (from 1, i >= 2) of series p from stored s takes a sum
\* or a difference out of the i32 range: p[i-1] + (p[i-1] - p[i-2]), that
\* plus s[i], or p[i] - p[i-1].
StepLeavesRange(p, s, i) ==
    LET Out(c, a, b, d) ==
            \/ Add3Overflows(a, IF i = 2 THEN 0 ELSE Sub32(a, b), d)
            \/ SubOverflows(c, a)
        b2 == IF i = 2 THEN p[1] ELSE p[i - 2]
    IN  \/ Out(p[i].lat, p[i - 1].lat, b2.lat, s[i].lat)
        \/ Out(p[i].lon, p[i - 1].lon, b2.lon, s[i].lon)

\* C12 (amended): the decoded series satisfies the recurrence in i32
\* arithmetic, that is modulo 2^32; it satisfies it over the integers when no
\* step leaves the i32 range, and a build with overflow checks panics at a
\* step that does, and only there.
C12_DoubleDelta_Wrapping ==
    Returned12 =>
        LET s == input
            p == Recurrence(s, Len(s))
            leaves == \E i \in 2..Len(s) : StepLeavesRange(p, s, i)
        IN  IF output.result.kind = "panic" THEN output.overflow_checks /\ leaves
            ELSE /\ output.result.value = p
                 /\ output.overflow_checks => ~leaves
                 /\ ~leaves =>
                        \A i \in 2..Len(s) :
                            IF i = 2 THEN /\ IsSum(p[2].lat, p[1].lat, s[2].lat)
                                          /\ IsSum(p[2].lon, p[1].lon, s[2].lon)
                            ELSE /\ IsSecondDifference(p[i].lat, p[i - 1].lat, p[i - 2].lat, s[i].lat)
                                 /\ IsSecondDifference(p[i].lon, p[i - 1].lon, p[i - 2].lon, s[i].lon)

\* Stored [(0,0),(1,1),(0,0),(0,0)] has been decoded to [(0,0),(1,1),(2,2),(3,3)].
C12_Witness ==
    /\ Returned12
    /\ input = <<LatLon(0, 0), LatLon(1, 1), LatLon(0, 0), LatLon(0, 0)>>
    /\ output.result.kind = "ok"
    /\ output.result.value = <<LatLon(0, 0), LatLon(1, 1), LatLon(2, 2), LatLon(3, 3)>>

-----------------------------------------------------------------------------
(* Properties of the tile arithmetic (SpecFile) *)

\* The tile range of the file's bounding box at a level: min unbiased, max
\* biased low.
RangeMin(level) == biased_coord2tile(level, minmax(file.header.bounds)[1], FALSE)
RangeMax(level) == biased_coord2tile(level, minmax(file.header.bounds)[2], TRUE)
BoxTiles(level) ==
    {t \in (0..(Pow2(level) - 1)) \X (0..(Pow2(level) - 1)) :
        /\ RangeMin(level)[1] <= t[1] /\ t[1] <= RangeMax(level)[1]
        /\ RangeMin(level)[2] <= t[2] /\ t[2] <= RangeMax(level)[2]}
\* Reading order: row by row, left to right.
ReadsBefore(t, u) == t[2] < u[2] \/ (t[2] = u[2] /\ t[1] < u[1])

\* C13: tile_idx_in_box is none exactly for the tiles outside the range
\* [min, max] of the box, and (y - min.y) * (max.x - min.x + 1) + (x - min.x)
\* for those inside; over the tiles of the box it is a bijection onto
\* 0 .. width * height - 1 that follows the reading order.
C13_TileIdxInBox ==
    IsCall("tile_idx_in_box") =>
        LET level == fcall.level
            min == RangeMin(level)
            max == RangeMax(level)
            w == max[1] - min[1] + 1
            h == max[2] - min[2] + 1
            idx(t) == tile_idx_in_box(level, file.header.bounds, t[1], t[2])
        IN  /\ fcall.result.index = None <=> <<fcall.x, fcall.y>> \notin BoxTiles(level)
            /\ fcall.result.index # None =>
                   fcall.result.index[1] = (fcall.y - min[2]) * w + (fcall.x - min[1])
            /\ {idx(t) : t \in BoxTiles(level)} = {Some(k) : k \in 0..(w * h - 1)}
            /\ \A t, u \in BoxTiles(level) : ReadsBefore(t, u) => idx(t)[1] < idx(u)[1]

\* Tile (1, 1) of the box (-50, -100)..(80, 90) degrees at level 2, a box of
\* three columns, has index 4.
C13_Witness ==
    /\ IsCall("tile_idx_in_box")
    /\ file.header.bounds = GeoBox(-50000000, -100000000, 80000000, 90000000)
    /\ fcall.level = 2 /\ fcall.x = 1 /\ fcall.y = 1
    /\ fcall.result.index = Some(4)

-----------------------------------------------------------------------------
(* Properties of BoundingBox (SpecBox) *)

\* C14: comparing boxes by corners(), the empty box is a left and a right
\* identity of union, and union is commutative and associative, over empty
\* and non-empty boxes alike.
C14_UnionAlgebra ==
    (output # <<>> /\ output.op = "union") =>
        /\ corners(output.empty_a) = corners(input[1])
        /\ corners(output.a_empty) = corners(input[1])
        /\ corners(output.a_b) = corners(output.b_a)
        /\ corners(output.ab_c) = corners(output.a_bc)

\* The unions of three different boxes away from the origin, none empty, one
\* of them with an empty box between.
C14_Witness ==
    /\ output # <<>> /\ output.op = "union"
    /\ input[1] = from_corners(Coord(1, 0), Coord(1, 0))
    /\ input[2] = from_corners(Coord(0, 1), Coord(0, 1))
    /\ input[3] = from_corners(Coord(1, 1), Coord(1, 1))
    /\ corners(output.ab_c) = Some(<<Coord(0, 0), Coord(1, 1)>>)
    /\ corners(output.a_empty) = Some(<<Coord(1, 0), Coord(1, 0)>>)

-----------------------------------------------------------------------------
(* Properties of the classifier (SpecClassify) *)

Classified == output # <<>> /\ input.op = "match_way"

\* The matcher's entity type is compatible with the way's shape.
Compatible(matcher, tags) ==
    LET yes == IF "area" \in DOMAIN tags
               THEN tags["area"].kind = "Literal" /\ tags["area"].s = "yes"
               ELSE FALSE
    IN  \/ matcher.entity_type = "Any"
        \/ matcher.entity_type = "Area" /\ yes
        \/ matcher.entity_type = "Path" /\ ~yes

\* One of the matcher's tag keys is on the way with a matching value.
TagMatches(matcher, tags) ==
    \E tag \in DOMAIN matcher.tags :
        /\ tag \in DOMAIN tags
        /\ \/ matcher.tags[tag].kind = "Present"
           \/ /\ matcher.tags[tag].kind = "Literal"
              /\ tags[tag].kind = "Literal"
              /\ tags[tag].s \in matcher.tags[tag].values

Winners(theme, tags) ==
    {i \in 1..Len(theme.matchers) :
        Compatible(theme.matchers[i], tags) /\ TagMatches(theme.matchers[i], tags)}

First(S) == CHOOSE i \in S : \A j \in S : i <= j

\* C15: match_way returns the material of the first matcher, in list order,
\* whose entity type is compatible with the way's shape and one of whose tag
\* keys is on the way with a matching value, and none when there is no such
\* matcher.
C15_MatchWay_AsStated ==
    Classified =>
        LET theme == input.theme
            won == Winners(theme, input.way.tags)
        IN  IF won = {} THEN output.result = None
            ELSE LET name == theme.matchers[First(won)].material
                 IN  /\ name \in DOMAIN theme.materials
                     /\ output.result = Some(theme.materials[name])

\* C16: under the outline theme every way is classified to the outline
\* material, never to none.
C16_Outline_AsStated ==
    (Classified /\ input.theme = outline) =>
        output.result = Some([fill |-> None, stroke |-> Some(<<10, 10, 10, 10>>)])

\* C25: in the basic theme every matcher names a material of the theme's
\* materials map, so a way that wins a matcher gets a material; a Path way
\* whose only tag is barrier gets the barrier material (the stroke of
\* theme.rs line 107), not none.
C25_BasicMaterials_AsStated ==
    (Classified /\ input.theme = basic) =>
        /\ \A i \in 1..Len(basic.matchers) :
               basic.matchers[i].material \in DOMAIN basic.materials
        /\ Winners(basic, input.way.tags) # {} => output.result # None
        /\ DOMAIN input.way.tags = {"barrier"} =>
               output.result = Some([stroke |-> Some(<<4, 2, 2, 8>>), fill |-> None])

Built == IF output = <<>> THEN FALSE ELSE output.op \in {"RenderTile::new", "place_tile"}

Placed == IF output = <<>> THEN FALSE ELSE output.op = "place_tile"

\* The ways and POIs of the tile that have a material.
ClassifiedWays == {i \in 1..Len(input.tile.ways) : from_tags(input.tile.ways[i].tags) # None}

ClassifiedPois == {k \in 1..Len(input.tile.pois) : from_tags(input.tile.pois[k].tags) # None}

\* The objects of the layer, or none when the tile has no such layer.
ObjectsOf(layer) ==
    IF layer \in DOMAIN output.tile.layers THEN output.tile.layers[layer] ELSE <<>>

Count(objs, geo) == Cardinality({n \in 1..Len(objs) : objs[n].geo = geo})

PathOf(i, j) ==
    [kind |-> "Path", way |-> i, block |-> j, detail |-> input.tile.ways[i].blocks[j]]

PointOf(k) == [kind |-> "Point", poi |-> k]

\* The place of an object in the order of insertion: the ways in the tile's
\* order, each way's blocks in order, then the POIs in order.
Inserted(obj) ==
    IF obj.geo.kind = "Path" THEN obj.geo.way * 100 + obj.geo.block
    ELSE 10000 + obj.geo.poi

LayerOf(obj) ==
    IF obj.geo.kind = "Path" THEN input.tile.ways[obj.geo.way].layer
    ELSE input.tile.pois[obj.geo.poi].layer

\* C17: the tile holds one Path object per block of every classified way and
\* one Point object per classified POI, each in its feature's layer and
\* nothing else; place_tile visits the layers in ascending order and the
\* objects of a layer in the order of their insertion.
C17_RenderTileOrder ==
    /\ Built =>
          /\ \A i \in ClassifiedWays : \A j \in 1..Len(input.tile.ways[i].blocks) :
                \A layer \in {-1, 1} :
                    Count(ObjectsOf(layer), PathOf(i, j))
                        = IF layer = input.tile.ways[i].layer THEN 1 ELSE 0
          /\ \A k \in ClassifiedPois : \A layer \in {-1, 1} :
                Count(ObjectsOf(layer), PointOf(k))
                    = IF layer = input.tile.pois[k].layer THEN 1 ELSE 0
          /\ \A layer \in DOMAIN output.tile.layers :
                \A n \in 1..Len(output.tile.layers[layer]) :
                    LET obj == output.tile.layers[layer][n]
                    IN  /\ LayerOf(obj) = layer
                        /\ IF obj.geo.kind = "Path"
                           THEN /\ obj.geo.way \in ClassifiedWays
                                /\ obj.material = from_tags(input.tile.ways[obj.geo.way].tags)[1]
                                /\ obj.name = input.tile.ways[obj.geo.way].name
                           ELSE /\ obj.geo.poi \in ClassifiedPois
                                /\ obj.material = from_tags(input.tile.pois[obj.geo.poi].tags)[1]
                                /\ obj.name = input.tile.pois[obj.geo.poi].name
    /\ Placed =>
          /\ Len(output.visited) =
                Cardinality({<<i, j>> \in ClassifiedWays \X (1..2) :
                                j <= Len(input.tile.ways[i].blocks)})
                + Cardinality(ClassifiedPois)
          /\ \A p \in 1..Len(output.visited), q \in 1..Len(output.visited) :
                p < q =>
                    LET a == output.visited[p]
                        b == output.visited[q]
                    IN  \/ LayerOf(a) < LayerOf(b)
                        \/ LayerOf(a) = LayerOf(b) /\ Inserted(a) < Inserted(b)

\* A tile was placed with objects on the layers -1 and 1, a way left out for
\* want of a material, a way of two blocks, and a POI following a way in its
\* layer.
C17_Witness ==
    /\ Placed
    /\ DOMAIN output.tile.layers = {-1, 1}
    /\ ClassifiedWays # 1..Len(input.tile.ways)
    /\ \E i \in ClassifiedWays : Len(input.tile.ways[i].blocks) = 2
    /\ \E k \in ClassifiedPois : \E i \in ClassifiedWays :
          input.tile.ways[i].layer = input.tile.pois[k].layer

-----------------------------------------------------------------------------
(* Properties of the worker jobs (Spec) *)

\* C18: once a tile is stored in the shard under a key, no step replaces it
\* by another object, and the tile a job delivers is the object the shard
\* holds for the tile's key.
C18_InsertOnceWins_AsStated ==
    [][/\ \A k \in DOMAIN cache : k \in DOMAIN cache' /\ cache'[k] = cache[k]
       /\ \A d \in delivered' \ delivered :
             d.job # 0 =>
                 LET k == <<d.tile.x, d.tile.y>>
                 IN  IF k \in DOMAIN cache' THEN cache'[k] = d.tile ELSE FALSE]_vars

\* C19: the shard's mutex is held by a job only at its lookup and at its
\* insertion: a job that is parsing, sending, waiting for the lock, not yet
\* started or finished holds no lock, so no job takes a lock while it holds
\* one.
C19_MutexScope ==
    /\ mutex # 0 => mutex \in JobIds
    /\ \A j \in JobIds :
          /\ mutex = j => jobs[j].pc \in {"get", "insert"}
          /\ jobs[j].pc \in {"spawned", "lock_get", "parse", "lock_insert", "send",
                             "done", "panicked"} => mutex # j

\* One job is parsing while the insertion of another job holds the mutex.
C19_Witness ==
    \E j \in JobIds, k \in JobIds :
        jobs[j].pc = "parse" /\ jobs[k].pc = "insert" /\ mutex = k

-----------------------------------------------------------------------------
(* Properties of the viewer under fair scheduling (SpecLive) *)

Requested(g) == \E r \in 1..Len(requests) : requests[r].generation = g

RequestOf(g) == CHOOSE r \in 1..Len(requests) : requests[r].generation = g

\* The request stamped g is the latest: no request came after it.
Latest(g) ==
    IF requests = <<>> THEN FALSE ELSE requests[Len(requests)].generation = g

\* The request stamped g was made and every request since has its viewport.
ViewportKept(g) ==
    IF Requested(g)
    THEN \A r \in RequestOf(g)..Len(requests) :
            requests[r].viewport = requests[RequestOf(g)].viewport
    ELSE FALSE

\* Every tile of the range of the request stamped g was delivered with the
\* request's stamp and was painted.
Served(g) ==
    IF Requested(g)
    THEN \A t \in requests[RequestOf(g)].tiles :
            /\ \E d \in delivered :
                  d.generation = g /\ d.tile.x = t[1] /\ d.tile.y = t[2]
            /\ \E r \in painted :
                  r.stamp = g /\ r.tile.x = t[1] /\ r.tile.y = t[2]
    ELSE FALSE

\* C20 as stated: with no tile that fails to parse, when the viewport does
\* not change after the request stamped g, every tile of the request's range
\* is eventually delivered stamped g and painted.
C20_Liveness_AsStated ==
    \A g \in 0..MaxFrames :
        (corrupt = {} /\ <>[]ViewportKept(g)) => <>Served(g)

\* C20 (amended): with no tile that fails to parse, when no request is made
\* after the request stamped g (it stays the latest one), every tile of its
\* range is eventually delivered stamped g and painted.
C20_Liveness ==
    \A g \in 0..MaxFrames :
        (corrupt = {} /\ <>[]Latest(g)) => <>Served(g)

\* The second or a later request is the latest and was served: tiles off
\* the map and tiles of worker jobs, the request made while a job of an
\* older request was still running.
C20_Witness ==
    /\ Len(requests) >= 2
    /\ corrupt = {}
    /\ Served(requests[Len(requests)].generation)
    /\ requests[Len(requests)].tiles # {}
    /\ ~requests[Len(requests)].quiet
    /\ \E j \in JobsOf(requests[Len(requests)].generation) : jobs[j].sent = 1
    /\ \E d \in DeliveredFor(requests[Len(requests)].generation) : d.job = 0

-----------------------------------------------------------------------------
(* Properties of the tile arithmetic (SpecTiles) *)

Coord2Tile == IF output = <<>> THEN FALSE ELSE output.op = "biased_coord2tile"

\* The tile the unbiased call gave has its origin at the coordinate, on the
\* axis: 1 the longitude (columns), 2 the latitude (rows).
OnOrigin(axis) ==
    LET origin == tile_origin(input.level, output.unbiased[1], output.unbiased[2])
    IN  IF axis = 1 THEN origin.lon = output.coord.lon ELSE origin.lat = output.coord.lat

\* C21: with bias_low the index is, on each axis, the unbiased index less 1
\* when the coordinate is on the origin of the unbiased tile and that index is
\* above 0, and the unbiased index otherwise; both calls give indices from 0
\* to 2^level - 1; at level 1 (0, 0) gives (1, 1) unbiased and (0, 0) biased,
\* and (90, -180) gives (0, 0) in both.
C21_BiasLow ==
    Coord2Tile =>
        /\ \A axis \in {1, 2} :
              /\ output.biased[axis] =
                    IF OnOrigin(axis) /\ output.unbiased[axis] > 0
                    THEN output.unbiased[axis] - 1
                    ELSE output.unbiased[axis]
              /\ output.unbiased[axis] \in 0..(Pow2(input.level) - 1)
              /\ output.biased[axis] \in 0..(Pow2(input.level) - 1)
        /\ (input.level = 1 /\ output.coord = LatLon(0, 0)) =>
              output.unbiased = <<1, 1>> /\ output.biased = <<0, 0>>
        /\ (input.level = 1 /\ output.coord = LatLon(90000000, -180000000)) =>
              output.unbiased = <<0, 0>> /\ output.biased = <<0, 0>>

\* A coordinate on the origin of its tile on both axes, in row 0 and in a
\* column above 0: the bias moves the column and leaves the row.
C21_Witness ==
    /\ Coord2Tile
    /\ OnOrigin(1) /\ OnOrigin(2)
    /\ output.unbiased[2] = 0
    /\ output.biased[1] = output.unbiased[1] - 1
    /\ output.biased[2] = 0

Counted == IF output = <<>> THEN FALSE ELSE output.op = "num_tiles"

\* C24: for a box with lat_min <= lat_max and lon_min <= lon_max the tile of
\* the max corner, biased low, is not before the tile of the min corner on
\* either axis, num_tiles gives at least 1 per axis with no underflow, and
\* every index tile_idx_in_box gives is below the number of entries read
\* into the tile index table, the product of the two counts.
C24_NumTiles_AsStated ==
    Counted =>
        /\ \A axis \in {1, 2} : output.max[axis] >= output.min[axis]
        /\ IF output.result.kind = "count"
           THEN /\ \A axis \in {1, 2} : output.result.n[axis] >= 1
                /\ \A t \in DOMAIN output.indices :
                      output.indices[t] # None =>
                          output.indices[t][1] < output.result.n[1] * output.result.n[2]
           ELSE FALSE

-----------------------------------------------------------------------------
(* Properties of BoundingBox::is_empty (SpecBox) *)

Intersected == IF output = <<>> THEN FALSE ELSE output.op = "intersection"

\* C22: is_empty is true of the empty box and of no other, a box of a single
\* point included, so a map whose bounds meet the viewport, be it in a single
\* point, is not skipped.
C22_IsEmpty_AsStated ==
    Intersected =>
        /\ \A k \in 1..3 : output.is_empty[k] <=> input[k].empty
        /\ output.skipped <=> output.met.empty

-----------------------------------------------------------------------------
(* Properties of the viewer's scale (SpecZoom) *)

\* C23: after any zooms, pans and zooms to fit the scale is at least 1, and
\* the viewport has positive width (place_tile, which divides by the scale,
\* does not divide by zero).
C23_ScaleAtLeastOne_AsStated ==
    /\ input.scale >= 1
    /\ width(output.viewport) > 0

====
